---------------------------- MODULE Spec2Model ----------------------------
(***************************************************************************)
(* A model of tiny.c: the parser (ParseProgram), the bytecode compiler     *)
(* (CompileProgram), the virtual machine (ExecuteCycle, RunMachine,        *)
(* CallProc), the mark-and-sweep collector (NewObject, GarbageCollect) and *)
(* the interpreter's life cycle (InitInterpreter, DeleteInterpreter).      *)
(*                                                                         *)
(* C arrays are modelled as sequences: the C element a[i] is a[i + 1].     *)
(* Numbers are the integers among the C doubles.  A read the C standard    *)
(* leaves undefined (a freed object, a word beyond an array) yields a      *)
(* value chosen nondeterministically by the step that performs it.         *)
(***************************************************************************)
EXTENDS Integers, Sequences, FiniteSets, TLC

(***************************************************************************)
(* Program constants                                                       *)
(***************************************************************************)
MAX_PROG_LEN == 2048
MAX_CONST_AMT == 256
MAX_STACK == 1024
MAX_INDIR == 1024
MAX_MEMBERS == 32

OP_PUSH == 0
OP_POP == 1
OP_ADD == 2
OP_SUB == 3
OP_MUL == 4
OP_DIV == 5
OP_MOD == 6
OP_OR == 7
OP_AND == 8
OP_LT == 9
OP_LTE == 10
OP_GT == 11
OP_GTE == 12
OP_EQU == 13
OP_NEQU == 14
OP_PRINT == 15
OP_SET == 16
OP_GET == 17
OP_READ == 18
OP_GOTO == 19
OP_GOTOZ == 20
OP_GOTONZ == 21
OP_CALL == 22
OP_RETURN == 23
OP_RETURN_VALUE == 24
OP_CALLF == 25
OP_GETLOCAL == 26
OP_SETLOCAL == 27
OP_MAKE_ARRAY == 28
OP_SETINDEX == 29
OP_GETINDEX == 30
OP_HALT == 31

(***************************************************************************)
(* Tokens.  GetToken yields a token code (CurTok) and, for identifiers,    *)
(* local references, strings and numbers, the text left in TokenBuffer     *)
(* (and TokenNumber).  A token is a record: k the code (the TOK_ name, or  *)
(* the character itself for a single-character token), s the text, n the   *)
(* number.                                                                 *)
(***************************************************************************)
Tok(k, s, n) == [k |-> k, s |-> s, n |-> n]
Id(s) == Tok("TOK_IDENT", s, 0)
Loc(s) == Tok("TOK_LOCALREF", s, 0)
Num(n) == Tok("TOK_NUMBER", "#", n)
Str(s) == Tok("TOK_STRING", s, 0)
P(k) == Tok(k, "", 0)
TOK_EOF == P("TOK_EOF")

\* The tokens that overwrite TokenBuffer (GetToken's isalpha, isdigit, '$'
\* and '"' branches); keywords are recognised in TokenBuffer too.
WritesTokenBuffer(k) ==
    k \in {"TOK_IDENT", "TOK_LOCALREF", "TOK_STRING", "TOK_NUMBER",
           "TOK_BEGIN", "TOK_END", "TOK_READ", "TOK_WRITE", "TOK_PROC",
           "TOK_IF", "TOK_RETURN", "TOK_WHILE", "TOK_THEN", "TOK_LOCAL"}

KeywordText(k) ==
    CASE k = "TOK_BEGIN" -> "begin" [] k = "TOK_END" -> "end"
      [] k = "TOK_READ" -> "read" [] k = "TOK_WRITE" -> "write"
      [] k = "TOK_PROC" -> "proc" [] k = "TOK_IF" -> "if"
      [] k = "TOK_RETURN" -> "return" [] k = "TOK_WHILE" -> "while"
      [] k = "TOK_THEN" -> "then" [] k = "TOK_LOCAL" -> "local"
      [] OTHER -> ""

(***************************************************************************)
(* The compile-time state: the parser's and the compiler's globals.        *)
(* A LocalDecl is [name, index, scope]; LocalDeclarations is the linked    *)
(* list, head first.  err is "" until exit(1) or a failed assert.          *)
(* inProc and refs are history: whether a proc body is being parsed, and   *)
(* every ReferenceLocal call made.                                         *)
(***************************************************************************)
(***************************************************************************)
(* The compile-time state: the parser's and the compiler's globals.        *)
(* A LocalDecl is [name, index, scope]; LocalDeclarations is the linked    *)
(* list, head first.  err is "" until exit(1) or a failed assert.          *)
(* inProc, refs and ast are history: whether a proc body is being parsed,  *)
(* every ReferenceLocal call made, and the program ParseProgram returned.  *)
(*                                                                         *)
(* A definition written Name[x \in Any] is a function of any value: TLC    *)
(* evaluates its argument once, before the body.                           *)
(***************************************************************************)
NoVar == [name |-> "", initialized |-> FALSE, object |-> 0, members |-> << >>]

ResetCompileState ==
    [in |-> << >>, ForeignFunctionNames |-> << >>,
     pos |-> 0, CurTok |-> "", TokenBuffer |-> "", TokenNumber |-> 0,
     Variables |-> << >>, Constants |-> << >>, FunctionNames |-> << >>,
     LocalDeclarations |-> << >>, CurrScope |-> 0, CurrNumLocals |-> 0,
     NumArgsDeclared |-> 0, Program |-> << >>, FunctionPcs |-> << >>,
     err |-> "", inProc |-> FALSE, refs |-> << >>, ast |-> << >>]

Exit[cs \in Any, msg \in Any] == IF cs.err = "" THEN [cs EXCEPT !.err = msg] ELSE cs

\* GetNextToken: CurTok = GetToken(in)
GetNextToken[cs \in Any] ==
    LET p == cs.pos + 1
        t == IF p <= Len(cs.in) THEN cs.in[p] ELSE TOK_EOF
    IN [cs EXCEPT !.pos = IF p <= Len(cs.in) THEN p ELSE cs.pos,
                  !.CurTok = t.k,
                  !.TokenBuffer = IF ~WritesTokenBuffer(t.k) THEN @
                                  ELSE IF KeywordText(t.k) # "" THEN KeywordText(t.k)
                                  ELSE t.s,
                  !.TokenNumber = IF t.k = "TOK_NUMBER" THEN t.n ELSE @]

\* The least element of a set of indices, or 0 when it is empty: where a
\* C loop "for(i = 0; ...) if(test) return i;" stops
FirstOf[S \in Any] == IF S = {} THEN 0 ELSE CHOOSE i \in S : \A j \in S : i <= j

IndexOfName[names \in Any, name \in Any] ==
    FirstOf[{i \in 1..Len(names) : names[i] = name}] - 1

\* What a Register... function returns: the state and the index
Registered[cs \in Any, id \in Any] == [cs |-> cs, id |-> id]

\* int RegisterVariableName(const char* name)
RegisterVariableName[cs \in Any, name \in Any] ==
    LET Found[i \in Any] ==
          IF i # 0 THEN Registered[cs, i - 1]
          ELSE Registered[[cs EXCEPT !.Variables =
                             Append(@, [NoVar EXCEPT !.name = name])],
                          Len(cs.Variables)]
    IN Found[FirstOf[{j \in 1..Len(cs.Variables) : cs.Variables[j].name = name}]]

\* int RegisterFunction(char* name): a foreign name wins, as -i - 1
RegisterFunction[cs \in Any, name \in Any] ==
    LET Found[f \in Any, u \in Any] ==
          IF f >= 0 THEN Registered[cs, (-f) - 1]
          ELSE IF u >= 0 THEN Registered[cs, u]
          ELSE Registered[[cs EXCEPT !.FunctionNames = Append(@, name),
                                     !.FunctionPcs = Append(@, 0)],
                          Len(cs.FunctionNames)]
    IN Found[IndexOfName[cs.ForeignFunctionNames, name],
             IndexOfName[cs.FunctionNames, name]]

\* int GetProcId(const char* name)
GetProcId[functionNames \in Any, name \in Any] == IndexOfName[functionNames, name]

\* A constant is [type, number, string]
CstNum(v) == [type |-> "CST_NUM", number |-> v, string |-> ""]
CstStr(s) == [type |-> "CST_STR", number |-> 0, string |-> s]

\* A comparison that takes two strings for equal only if they are one
\* string
SameNumber(a, b) == a.type = "CST_NUM" /\ b.type = "CST_NUM" /\ a.number = b.number

\* The test of the loops of RegisterNumber and RegisterString: the type,
\* then the number or the bytes of the string
SameConst(a, b) ==
    /\ a.type = b.type
    /\ IF a.type = "CST_NUM" THEN a.number = b.number ELSE a.string = b.string

\* The two functions differ by the type they look for and store
RegisterConst[cs \in Any, c \in Any] ==
    LET Found[i \in Any] ==
          IF i # 0 THEN Registered[cs, i - 1]
          ELSE IF ~(Len(cs.Constants) < MAX_CONST_AMT)
               THEN Registered[Exit[cs, "Constant Overflow!"], 0]
          ELSE Registered[[cs EXCEPT !.Constants = Append(@, c)], Len(cs.Constants)]
    IN Found[FirstOf[{j \in 1..Len(cs.Constants) : SameConst(cs.Constants[j], c)}]]

\* int RegisterNumber(double value)
RegisterNumber[cs \in Any, value \in Any] == RegisterConst[cs, CstNum(value)]

\* int RegisterString(char* string)
RegisterString[cs \in Any, string \in Any] == RegisterConst[cs, CstStr(string)]

\* int DeclareLocal(char* name)
DeclareLocal[cs \in Any, name \in Any] ==
    Registered[[cs EXCEPT !.LocalDeclarations =
                   <<[name |-> name, index |-> cs.CurrNumLocals,
                      scope |-> cs.CurrScope]>> \o @,
                !.CurrNumLocals = @ + 1],
               cs.CurrNumLocals]

\* An index that counts the arguments from the frame pointer down
ArgumentIndexDown(nargs, NumArgsDeclared) == -NumArgsDeclared

\* newLocal->index = -nargs + (NumArgsDeclared - 1), NumArgsDeclared
\* incremented
ArgumentIndex(nargs, NumArgsDeclared) == (-nargs) + (NumArgsDeclared - 1)

\* int DeclareArgument(char* name, int nargs)
DeclareArgument[cs \in Any, name \in Any, nargs \in Any] ==
    [cs EXCEPT !.NumArgsDeclared = @ + 1,
               !.LocalDeclarations =
                <<[name |-> name, index |-> ArgumentIndex(nargs, cs.NumArgsDeclared + 1),
                   scope |-> cs.CurrScope]>> \o @]

\* A test that passes over the declarations of the reference's own depth
LocalMatchesBelow(node, name, scope) == node.name = name /\ node.scope < scope

\* The test of ReferenceLocal's loop
LocalMatches(node, name, scope) == node.name = name /\ node.scope <= scope

\* int ReferenceLocal(char* name): the first declaration of the list that
\* matches, or exit(1).  refs records the call: at is the place in the list
\* of the declaration whose index is returned, 0 if there is none.
ReferenceLocal[cs \in Any, name \in Any] ==
    LET Found[i \in Any] ==
          LET ref == [name |-> name, scope |-> cs.CurrScope, inProc |-> cs.inProc,
                      found |-> i # 0, at |-> i, decls |-> cs.LocalDeclarations]
          IN IF i # 0
             THEN Registered[[cs EXCEPT !.refs = Append(@, ref)],
                             cs.LocalDeclarations[i].index]
             ELSE Registered[Exit[[cs EXCEPT !.refs = Append(@, ref)],
                                  "Attempted to reference non-existent local variable"],
                             0]
    IN Found[FirstOf[{j \in 1..Len(cs.LocalDeclarations) :
                        LocalMatches(cs.LocalDeclarations[j], name, cs.CurrScope)}]]

\* void ClearLocals()
ClearLocals[cs \in Any] == [cs EXCEPT !.LocalDeclarations = << >>, !.CurrNumLocals = 0]

(***************************************************************************)
(* The parser.  Every definition takes the compile-time state and returns  *)
(* [e, cs]: the expression built and the state after it.  An expression    *)
(* is a record with the fields of its case of the C union; a statement     *)
(* list (the next links) is a sequence.  Once err is set the process has   *)
(* exited: nothing more is done.                                           *)
(***************************************************************************)
NoExpr == [type |-> "NULL"]
R[e \in Any, cs \in Any] == [e |-> e, cs |-> cs]

RECURSIVE ParseExpr(_), ParseFactor(_)

\* while(CurTok != end) { ... = ParseExpr(in); }: the statement lists of
\* ParseProgram (end = TOK_EOF) and of proc, if and while (end = TOK_END)
ParseBlock[cs \in Any, end \in Any, acc \in Any] ==
    LET More[r \in Any] == ParseBlock[r.cs, end, Append(acc, r.e)]
    IN IF cs.err # "" \/ cs.CurTok = end THEN R[acc, cs]
       ELSE More[ParseExpr(cs)]

\* ParseFactor, case TOK_IDENT, the call's argument loop
ParseCallArgs[cs \in Any, acc \in Any] ==
    LET More[r \in Any] ==
          ParseCallArgs[IF r.cs.err # "" THEN r.cs
                        ELSE IF r.cs.CurTok = "," THEN GetNextToken[r.cs]
                        ELSE IF r.cs.CurTok # ")"
                             THEN Exit[r.cs, "Expected ')' after attempted call to proc"]
                        ELSE r.cs,
                        Append(acc, r.e)]
    IN IF cs.err # "" \/ cs.CurTok = ")" THEN R[acc, cs]
       ELSE More[ParseExpr(cs)]

\* ParseFactor, case TOK_IDENT
ParseIdent[cs \in Any] ==
    LET ident == cs.TokenBuffer
        Index[v \in Any] ==
          LET Close[r \in Any] ==
                R[[type |-> "EXP_ARRAY_INDEX", isGlobalArray |-> TRUE,
                   arrayVariableIndex |-> v.id, indexExpr |-> r.e],
                  IF r.cs.err # "" THEN r.cs ELSE GetNextToken[r.cs]]
          IN Close[ParseExpr(v.cs)]
        Name[v \in Any] == R[[type |-> "EXP_ID", ident |-> v.id], v.cs]
        Call[a \in Any] ==
          LET Callee[f \in Any] ==
                R[[type |-> "EXP_CALL", callee |-> f.id, args |-> a.e],
                  GetNextToken[f.cs]]
          IN IF a.cs.err # "" THEN R[NoExpr, a.cs]
             ELSE Callee[RegisterFunction[a.cs, ident]]
        After[c1 \in Any] ==
          IF c1.CurTok # "("
          THEN IF c1.CurTok = "["
               THEN Index[RegisterVariableName[GetNextToken[c1], ident]]
               ELSE Name[RegisterVariableName[c1, ident]]
          ELSE Call[ParseCallArgs[GetNextToken[c1], << >>]]
    IN After[GetNextToken[cs]]

\* ParseFactor, case '{', the member loop: TokenBuffer is copied before
\* the token is looked at
ParseMembers[cs \in Any, acc \in Any] ==
    IF cs.err # "" \/ cs.CurTok = "}" THEN R[acc, cs]
    ELSE ParseMembers[IF cs.CurTok = "," THEN GetNextToken[cs]
                      ELSE IF cs.CurTok # "}"
                           THEN Exit[cs, "Expected '}' after named member array declaration"]
                      ELSE cs,
                      Append(acc, cs.TokenBuffer)]

\* ParseFactor, case '{'
ParseNamedMemberArray[cs \in Any] ==
    LET Close[m \in Any] ==
          IF m.cs.err # "" THEN R[NoExpr, m.cs]
          ELSE R[[type |-> "EXP_NAMED_MEMBER_ARRAY", members |-> m.e],
                 GetNextToken[m.cs]]
    IN Close[ParseMembers[GetNextToken[cs], << >>]]

\* ParseFactor, case '['
ParseMakeArray[cs \in Any] ==
    LET Close[r \in Any] ==
          R[[type |-> "EXP_MAKE_ARRAY", arrayLengthExpr |-> r.e],
            IF r.cs.err # "" THEN r.cs ELSE GetNextToken[r.cs]]
    IN Close[ParseExpr(GetNextToken[cs])]

\* ParseFactor, case '-': case '+':
ParseUnary[cs \in Any] ==
    LET Operand[r \in Any] ==
          R[[type |-> "EXP_UNARY", op |-> cs.CurTok, exp |-> r.e], r.cs]
    IN Operand[ParseFactor(GetNextToken[cs])]

\* ParseFactor, case TOK_NUMBER
ParseNumber[cs \in Any] ==
    LET Const[c \in Any] ==
          R[[type |-> "EXP_NUM", number |-> c.id],
            IF c.cs.err # "" THEN c.cs ELSE GetNextToken[c.cs]]
    IN Const[RegisterNumber[cs, cs.TokenNumber]]

\* ParseFactor, case TOK_STRING
ParseString[cs \in Any] ==
    LET Const[c \in Any] ==
          R[[type |-> "EXP_STRING", string |-> c.id],
            IF c.cs.err # "" THEN c.cs ELSE GetNextToken[c.cs]]
    IN Const[RegisterString[cs, cs.TokenBuffer]]

\* The scope test of ParseFactor's case TOK_LOCAL
LocalAllowed(CurrScope) == ~(CurrScope = 0)

\* ParseFactor, case TOK_LOCAL
ParseLocal[cs \in Any] ==
    LET Declared[d \in Any] ==
          R[[type |-> "EXP_LOCAL", index |-> d.id], GetNextToken[d.cs]]
        Name[c1 \in Any] ==
          IF c1.CurTok # "TOK_IDENT"
          THEN R[NoExpr, Exit[c1, "Local name must be identifier!"]]
          ELSE Declared[DeclareLocal[c1, c1.TokenBuffer]]
    IN IF ~LocalAllowed(cs.CurrScope)
       THEN R[NoExpr, Exit[cs, "Cannot declare or reference locals in the global scope!"]]
       ELSE Name[GetNextToken[cs]]

\* ParseFactor, case TOK_LOCALREF
ParseLocalRef[cs \in Any] ==
    LET Referenced[l \in Any] ==
          LET Close[r \in Any] ==
                R[[type |-> "EXP_ARRAY_INDEX", isGlobalArray |-> FALSE,
                   arrayVariableIndex |-> l.id, indexExpr |-> r.e],
                  IF r.cs.err # "" THEN r.cs ELSE GetNextToken[r.cs]]
              After[c1 \in Any] ==
                IF c1.CurTok # "["
                THEN R[[type |-> "EXP_LOCALREF", localRefIdx |-> l.id], c1]
                ELSE Close[ParseExpr(GetNextToken[c1])]
          IN IF l.cs.err # "" THEN R[NoExpr, l.cs]
             ELSE After[GetNextToken[l.cs]]
    IN Referenced[ReferenceLocal[cs, cs.TokenBuffer]]

\* ParseFactor, case TOK_PROC, the parameter loop
ParseParams[cs \in Any, acc \in Any] ==
    LET Sep[c1 \in Any] ==
          IF c1.CurTok \notin {")", ","}
          THEN R[acc, Exit[c1, "assert(CurTok == ')' || CurTok == ',')"]]
          ELSE ParseParams[IF c1.CurTok = "," THEN GetNextToken[c1] ELSE c1,
                           Append(acc, cs.TokenBuffer)]
    IN IF cs.err # "" \/ cs.CurTok = ")" THEN R[acc, cs]
       ELSE IF cs.CurTok # "TOK_IDENT" THEN R[acc, Exit[cs, "assert(CurTok == TOK_IDENT)"]]
       ELSE Sep[GetNextToken[cs]]

\* for(int i = 0; i < nargs; ++i) DeclareArgument(args[i], nargs);
DeclareArguments[cs \in Any, args \in Any, i \in Any] ==
    IF i > Len(args) THEN cs
    ELSE DeclareArguments[DeclareArgument[cs, args[i], Len(args)], args, i + 1]

\* The scope test of ParseFactor's case TOK_PROC
ProcAllowed(CurrScope) == ~(CurrScope # 0)

\* ParseFactor, case TOK_PROC
ParseProc[cs \in Any] ==
    LET Body[name \in Any, b \in Any] ==
          IF b.cs.err # "" THEN R[NoExpr, b.cs]
          ELSE R[[type |-> "EXP_PROC", name |-> name, exprHead |-> b.e,
                  numLocals |-> b.cs.CurrNumLocals],
                 GetNextToken[ClearLocals[[b.cs EXCEPT !.CurrScope = @ - 1,
                                                       !.inProc = FALSE]]]]
        Params[name \in Any, a \in Any] ==
          IF a.cs.err # "" THEN R[NoExpr, a.cs]
          ELSE Body[name,
                    ParseBlock[GetNextToken[[DeclareArguments[a.cs, a.e, 1]
                                               EXCEPT !.NumArgsDeclared = 0]],
                               "TOK_END", << >>]]
        Open[name \in Any, c2 \in Any] ==
          IF c2.CurTok # "(" THEN R[NoExpr, Exit[c2, "assert(CurTok == '(')"]]
          ELSE Params[name, ParseParams[GetNextToken[c2], << >>]]
        Function[f \in Any] ==
          Open[f.id, [GetNextToken[f.cs] EXCEPT !.CurrScope = @ + 1, !.inProc = TRUE]]
        Name[c1 \in Any] ==
          IF c1.CurTok # "TOK_IDENT"
          THEN R[NoExpr, Exit[c1, "Proc name must be identifier!"]]
          ELSE Function[RegisterFunction[c1, c1.TokenBuffer]]
    IN IF ~ProcAllowed(cs.CurrScope)
       THEN R[NoExpr, Exit[cs, "Procedure defintion in a local scope is not allowed"]]
       ELSE Name[GetNextToken[cs]]

\* The end of the cases TOK_IF and TOK_WHILE: --CurrScope; GetNextToken(in);
ParseScopeEnd[type \in Any, cond \in Any, b \in Any] ==
    IF b.cs.err # "" THEN R[NoExpr, b.cs]
    ELSE R[[type |-> type, cond |-> cond, exprHead |-> b.e],
           GetNextToken[[b.cs EXCEPT !.CurrScope = @ - 1]]]

\* ParseFactor, case TOK_IF
ParseIf[cs \in Any] ==
    LET Cond[c \in Any] ==
          IF c.cs.err # "" THEN R[NoExpr, c.cs]
          ELSE IF c.cs.CurTok # "TOK_THEN"
          THEN R[NoExpr, Exit[c.cs, "Expected 'then' after if condition"]]
          ELSE ParseScopeEnd["EXP_IF", c.e,
                             ParseBlock[[GetNextToken[c.cs] EXCEPT !.CurrScope = @ + 1],
                                        "TOK_END", << >>]]
    IN Cond[ParseExpr(GetNextToken[cs])]

\* ParseFactor, case TOK_WHILE
ParseWhile[cs \in Any] ==
    LET Cond[c \in Any] ==
          IF c.cs.err # "" THEN R[NoExpr, c.cs]
          ELSE ParseScopeEnd["EXP_WHILE", c.e,
                             ParseBlock[[c.cs EXCEPT !.CurrScope = @ + 1],
                                        "TOK_END", << >>]]
    IN Cond[ParseExpr(GetNextToken[cs])]

\* ParseFactor, case TOK_RETURN
ParseReturn[cs \in Any] ==
    LET Value[r \in Any] == R[[type |-> "EXP_RETURN", retExpr |-> r.e], r.cs]
        After[c1 \in Any] ==
          IF c1.CurTok = ";"
          THEN R[[type |-> "EXP_RETURN", retExpr |-> NoExpr], GetNextToken[c1]]
          ELSE Value[ParseExpr(c1)]
    IN After[GetNextToken[cs]]

\* ParseFactor, case TOK_READ, the loop
ParseReadIds[cs \in Any, ids \in Any, isLocal \in Any] ==
    LET More[v \in Any] ==
          ParseReadIds[IF v.cs.err # "" THEN v.cs ELSE GetNextToken[v.cs],
                       Append(ids, v.id),
                       Append(isLocal, cs.CurTok # "TOK_IDENT")]
    IN IF cs.err # "" \/ cs.CurTok = "TOK_END"
       THEN R[[type |-> "EXP_READ", ids |-> ids, isLocal |-> isLocal], cs]
       ELSE IF cs.CurTok \notin {"TOK_IDENT", "TOK_LOCALREF"}
       THEN R[NoExpr,
              Exit[cs, "Expected some sort of variable in list for read expression!"]]
       ELSE IF cs.CurTok = "TOK_IDENT"
       THEN More[RegisterVariableName[cs, cs.TokenBuffer]]
       ELSE More[ReferenceLocal[cs, cs.TokenBuffer]]

\* The end of the cases TOK_READ and TOK_WRITE: GetNextToken(in); return exp;
ParseListEnd[r \in Any, e \in Any] ==
    IF r.cs.err # "" THEN R[NoExpr, r.cs] ELSE R[e, GetNextToken[r.cs]]

\* ParseFactor, case TOK_READ
ParseRead[cs \in Any] ==
    LET Ids[r \in Any] == ParseListEnd[r, r.e]
    IN Ids[ParseReadIds[GetNextToken[cs], << >>, << >>]]

\* ParseFactor, case TOK_WRITE
ParseWrite[cs \in Any] ==
    LET Exprs[r \in Any] == ParseListEnd[r, [type |-> "EXP_WRITE", exprs |-> r.e]]
    IN Exprs[ParseBlock[GetNextToken[cs], "TOK_END", << >>]]

\* ParseFactor, case '('
ParseParen[cs \in Any] ==
    LET Inner[r \in Any] ==
          IF r.cs.err # "" THEN R[NoExpr, r.cs]
          ELSE IF r.cs.CurTok # ")"
          THEN R[NoExpr, Exit[r.cs, "Expected matching ')' after previous '('"]]
          ELSE R[[type |-> "EXP_PAREN", paren |-> r.e], GetNextToken[r.cs]]
    IN Inner[ParseExpr(GetNextToken[cs])]

\* Expr* ParseFactor(FILE* in): the switch on CurTok
ParseCase[cs \in Any] ==
    LET t == cs.CurTok IN
    IF cs.err # "" THEN R[NoExpr, cs]
    ELSE CASE t = "TOK_IDENT" -> ParseIdent[cs]
           [] t = "{" -> ParseNamedMemberArray[cs]
           [] t = "[" -> ParseMakeArray[cs]
           [] t \in {"-", "+"} -> ParseUnary[cs]
           [] t = "TOK_NUMBER" -> ParseNumber[cs]
           [] t = "TOK_STRING" -> ParseString[cs]
           [] t = "TOK_LOCAL" -> ParseLocal[cs]
           [] t = "TOK_LOCALREF" -> ParseLocalRef[cs]
           [] t = "TOK_PROC" -> ParseProc[cs]
           [] t = "TOK_IF" -> ParseIf[cs]
           [] t = "TOK_WHILE" -> ParseWhile[cs]
           [] t = "TOK_RETURN" -> ParseReturn[cs]
           [] t = "TOK_READ" -> ParseRead[cs]
           [] t = "TOK_WRITE" -> ParseWrite[cs]
           [] t = "(" -> ParseParen[cs]
           [] OTHER -> R[NoExpr, Exit[cs, "Unexpected token"]]

ParseFactor(cs) == ParseCase[cs]

\* int GetTokenPrec()
GetTokenPrec(CurTok) ==
    CASE CurTok \in {"*", "/", "%", "&", "|"} -> 5
      [] CurTok \in {"+", "-"} -> 4
      [] CurTok \in {"TOK_LTE", "TOK_GTE", "TOK_EQUALS", "TOK_NOTEQUALS", "<", ">"} -> 3
      [] CurTok = "=" -> 1
      [] OTHER -> -1

\* A test that never hands the right operand to the operator after it
BindsNoTighter(prec, nextPrec) == prec < nextPrec /\ nextPrec < prec

\* if(prec < nextPrec) rhs = ParseBinRhs(in, prec + 1, rhs);
BindsTighter(prec, nextPrec) == prec < nextPrec

\* Expr* ParseBinRhs(FILE* in, int exprPrec, Expr* lhs)
ParseBinRhs[cs \in Any, exprPrec \in Any, lhs \in Any] ==
    LET prec == GetTokenPrec(cs.CurTok)
        Rhs[rhs \in Any] ==
          IF rhs.cs.err # "" THEN R[NoExpr, rhs.cs]
          ELSE ParseBinRhs[rhs.cs, exprPrec,
                           [type |-> "EXP_BINARY", lhs |-> lhs, rhs |-> rhs.e,
                            op |-> cs.CurTok]]
        Factor[f \in Any] ==
          IF f.cs.err # "" THEN R[NoExpr, f.cs]
          ELSE IF BindsTighter(prec, GetTokenPrec(f.cs.CurTok))
          THEN Rhs[ParseBinRhs[f.cs, prec + 1, f.e]]
          ELSE Rhs[f]
    IN IF cs.err # "" \/ prec < exprPrec THEN R[lhs, cs]
       ELSE Factor[ParseFactor(GetNextToken[cs])]

\* Expr* ParseExpr(FILE* in)
ParseExpr(cs) ==
    LET Factor[factor \in Any] ==
          IF factor.cs.err # "" THEN R[NoExpr, factor.cs]
          ELSE ParseBinRhs[factor.cs, 0, factor.e]
    IN Factor[ParseFactor(cs)]

\* Expr* ParseProgram(FILE* in)
ParseProgram[cs \in Any] == ParseBlock[GetNextToken[cs], "TOK_EOF", << >>]

(***************************************************************************)
(* The compiler.  Program is the byte buffer; an immediate operand is the  *)
(* four bytes of a C int in host order (little-endian, two's complement).  *)
(***************************************************************************)
Byte(u, i) == (u \div (256 ^ i)) % 256

\* The bytes GenerateInt and GenerateIntAt copy out of an int
IntToWords[value \in Any] ==
    IF value >= 0
    THEN <<Byte(value, 0), Byte(value, 1), Byte(value, 2), Byte(value, 3)>>
    ELSE <<255 - Byte((-value) - 1, 0), 255 - Byte((-value) - 1, 1),
           255 - Byte((-value) - 1, 2), 255 - Byte((-value) - 1, 3)>>

\* The int ReadInteger assembles from four bytes
WordsToInt[w \in Any] ==
    IF w[4] < 128
    THEN w[1] + 256 * w[2] + 65536 * w[3] + 16777216 * w[4]
    ELSE -((255 - w[1]) + 256 * (255 - w[2]) + 65536 * (255 - w[3])
           + 16777216 * (255 - w[4])) - 1

\* void GenerateCode(Word inst)
GenerateCode[cs \in Any, inst \in Any] ==
    IF cs.err # "" THEN cs
    ELSE IF ~(Len(cs.Program) < MAX_PROG_LEN) THEN Exit[cs, "Program Overflow!"]
    ELSE [cs EXCEPT !.Program = Append(@, inst)]

\* void GenerateInt(int value)
GenerateInt[cs \in Any, value \in Any] ==
    LET Words[w \in Any] ==
          GenerateCode[GenerateCode[GenerateCode[GenerateCode[cs, w[1]], w[2]], w[3]], w[4]]
    IN Words[IntToWords[value]]

\* void GenerateIntAt(int value, int pc)
GenerateIntAt[cs \in Any, value \in Any, pc \in Any] ==
    LET Words[w \in Any] ==
          [cs EXCEPT !.Program[pc + 1] = w[1], !.Program[pc + 2] = w[2],
                     !.Program[pc + 3] = w[3], !.Program[pc + 4] = w[4]]
    IN IF cs.err # "" THEN cs ELSE Words[IntToWords[value]]

\* The opcode CompileExpr's case EXP_BINARY emits for an operator
BinaryOpcode(op) ==
    CASE op = "+" -> OP_ADD [] op = "*" -> OP_MUL [] op = "/" -> OP_DIV
      [] op = "%" -> OP_MOD [] op = "|" -> OP_OR [] op = "&" -> OP_AND
      [] op = "-" -> OP_SUB [] op = "<" -> OP_LT [] op = ">" -> OP_GT
      [] op = "TOK_EQUALS" -> OP_EQU [] op = "TOK_NOTEQUALS" -> OP_NEQU
      [] op = "TOK_LTE" -> OP_LTE [] op = "TOK_GTE" -> OP_GTE

RECURSIVE CompileExpr(_, _)

\* void CompileProgram(Expr* program): the list from its i-th statement on
CompileProgram[cs \in Any, program \in Any, i \in Any] ==
    IF cs.err # "" \/ i > Len(program) THEN cs
    ELSE CompileProgram[CompileExpr(cs, program[i]), program, i + 1]

\* CompileExpr, case EXP_ID: the use-before-set check
CompileId[cs \in Any, exp \in Any] ==
    IF ~cs.Variables[exp.ident + 1].initialized
    THEN Exit[cs, "Attempted to use uninitialized variable"]
    ELSE GenerateInt[GenerateCode[cs, OP_GET], exp.ident]

\* CompileExpr, case EXP_CALL
CompileCall[cs \in Any, exp \in Any] ==
    IF exp.callee < 0
    THEN GenerateInt[GenerateCode[CompileProgram[cs, exp.args, 1], OP_CALLF],
                     -(exp.callee + 1)]
    ELSE GenerateInt[GenerateInt[GenerateCode[CompileProgram[cs, exp.args, 1], OP_CALL],
                                 Len(exp.args)],
                     exp.callee]

\* CompileExpr, case EXP_READ
CompileRead[cs \in Any, exp \in Any, i \in Any] ==
    IF cs.err # "" \/ i > Len(exp.ids) THEN cs
    ELSE CompileRead[
            GenerateInt[GenerateCode[GenerateCode[cs, OP_READ],
                                     IF ~exp.isLocal[i] THEN OP_SET ELSE OP_SETLOCAL],
                        exp.ids[i]],
            exp, i + 1]

\* CompileExpr, case EXP_WRITE
CompileWrite[cs \in Any, exp \in Any, i \in Any] ==
    IF cs.err # "" \/ i > Len(exp.exprs) THEN cs
    ELSE CompileWrite[GenerateCode[CompileExpr(cs, exp.exprs[i]), OP_PRINT],
                      exp, i + 1]

\* The array push of an EXP_ARRAY_INDEX: GET or GETLOCAL, with no check
\* of the global's initialized flag
CompileArrayPush[cs \in Any, ai \in Any] ==
    IF ai.isGlobalArray
    THEN GenerateInt[GenerateCode[cs, OP_GET], ai.arrayVariableIndex]
    ELSE GenerateInt[GenerateCode[cs, OP_GETLOCAL], ai.arrayVariableIndex]

\* CompileExpr, case EXP_BINARY, case '='
CompileAssign[cs \in Any, exp \in Any] ==
    LET lhs == exp.lhs
        rhs == exp.rhs
        Set[c1 \in Any] ==
          IF c1.err # "" THEN c1
          ELSE [c1 EXCEPT !.Variables[lhs.ident + 1].initialized = TRUE]
    IN CASE lhs.type = "EXP_ID" ->
              IF rhs.type # "EXP_NAMED_MEMBER_ARRAY"
              THEN Set[GenerateInt[GenerateCode[CompileExpr(cs, rhs), OP_SET],
                                   lhs.ident]]
              ELSE [cs EXCEPT !.Variables[lhs.ident + 1].members = rhs.members]
         [] lhs.type = "EXP_LOCAL" ->
              GenerateInt[GenerateCode[CompileExpr(cs, rhs), OP_SETLOCAL], lhs.index]
         [] lhs.type = "EXP_LOCALREF" ->
              GenerateInt[GenerateCode[CompileExpr(cs, rhs), OP_SETLOCAL],
                          lhs.localRefIdx]
         [] lhs.type = "EXP_ARRAY_INDEX" ->
              GenerateCode[
                  CompileExpr(CompileExpr(CompileArrayPush[cs, lhs], lhs.indexExpr),
                              rhs),
                  OP_SETINDEX]
         [] OTHER ->
              Exit[cs, "LHS of assignment operation must be a local or a global variable"]

\* CompileExpr, case EXP_BINARY
CompileBinary[cs \in Any, exp \in Any] ==
    IF exp.op = "=" THEN CompileAssign[cs, exp]
    ELSE GenerateCode[CompileExpr(CompileExpr(cs, exp.lhs), exp.rhs),
                      BinaryOpcode(exp.op)]

\* CompileExpr, case EXP_UNARY
CompileUnary[cs \in Any, exp \in Any] ==
    LET Const[n \in Any] == GenerateCode[GenerateInt[n.cs, n.id], OP_MUL]
        Operand[c1 \in Any] ==
          IF exp.op = "-" /\ c1.err = ""
          THEN Const[RegisterNumber[GenerateCode[c1, OP_PUSH], -1]]
          ELSE c1
    IN Operand[CompileExpr(cs, exp.exp)]

\* CompileExpr, case EXP_PROC, the loop that zero-initialises the locals
PushLocals[cs \in Any, n \in Any] ==
    LET Const[z \in Any] == PushLocals[GenerateInt[z.cs, z.id], n - 1]
    IN IF cs.err # "" \/ n <= 0 THEN cs
       ELSE Const[RegisterNumber[GenerateCode[cs, OP_PUSH], 0]]

\* The end of the cases EXP_PROC, EXP_IF and EXP_WHILE:
\* GenerateIntAt(ProgramLength, skipGotoPc)
PatchSkip[cs \in Any, skipGotoPc \in Any] ==
    GenerateIntAt[cs, Len(cs.Program), skipGotoPc]

\* A loop that pushes one number less
NumLocalsButOne(exp) == exp.numLocals - 1

\* The bound of the loop of PUSH 0: i < exp->proc.numLocals
NumLocals(exp) == exp.numLocals

\* CompileExpr, case EXP_PROC
CompileProc[cs \in Any, exp \in Any] ==
    LET Entry[c2 \in Any, skipGotoPc \in Any] ==
          IF c2.err # "" THEN c2
          ELSE IF exp.name < 0 THEN Exit[c2, "FunctionPcs[negative id] written"]
          ELSE PatchSkip[
                 GenerateCode[
                   CompileProgram[
                     PushLocals[[c2 EXCEPT !.FunctionPcs[exp.name + 1] = Len(c2.Program)],
                                NumLocals(exp)],
                     exp.exprHead, 1],
                   OP_RETURN],
                 skipGotoPc]
        Goto[c1 \in Any] == Entry[GenerateInt[c1, 0], Len(c1.Program)]
    IN Goto[GenerateCode[cs, OP_GOTO]]

\* CompileExpr, case EXP_IF
CompileIf[cs \in Any, exp \in Any] ==
    LET Goto[c1 \in Any] ==
          PatchSkip[CompileProgram[GenerateInt[c1, 0], exp.exprHead, 1],
                    Len(c1.Program)]
    IN Goto[GenerateCode[CompileExpr(cs, exp.cond), OP_GOTOZ]]

\* CompileExpr, case EXP_WHILE
CompileWhile[cs \in Any, exp \in Any] ==
    LET Goto[c1 \in Any] ==
          PatchSkip[GenerateInt[GenerateCode[CompileProgram[GenerateInt[c1, 0],
                                                            exp.exprHead, 1],
                                             OP_GOTO],
                                Len(cs.Program)],
                    Len(c1.Program)]
    IN Goto[GenerateCode[CompileExpr(cs, exp.cond), OP_GOTOZ]]

\* void CompileExpr(Expr* exp): the switch on exp->type
CompileCase[cs \in Any, exp \in Any] ==
    LET t == exp.type IN
    IF cs.err # "" THEN cs
    ELSE CASE t = "EXP_ID" -> CompileId[cs, exp]
           [] t = "EXP_CALL" -> CompileCall[cs, exp]
           [] t = "EXP_NUM" -> GenerateInt[GenerateCode[cs, OP_PUSH], exp.number]
           [] t = "EXP_STRING" -> GenerateInt[GenerateCode[cs, OP_PUSH], exp.string]
           [] t = "EXP_LOCAL" -> cs
           [] t = "EXP_LOCALREF" ->
                GenerateInt[GenerateCode[cs, OP_GETLOCAL], exp.localRefIdx]
           [] t = "EXP_READ" -> CompileRead[cs, exp, 1]
           [] t = "EXP_WRITE" -> CompileWrite[cs, exp, 1]
           [] t = "EXP_BINARY" -> CompileBinary[cs, exp]
           [] t = "EXP_PAREN" -> CompileExpr(cs, exp.paren)
           [] t = "EXP_UNARY" -> CompileUnary[cs, exp]
           [] t = "EXP_PROC" -> CompileProc[cs, exp]
           [] t = "EXP_IF" -> CompileIf[cs, exp]
           [] t = "EXP_WHILE" -> CompileWhile[cs, exp]
           [] t = "EXP_MAKE_ARRAY" ->
                GenerateCode[CompileExpr(cs, exp.arrayLengthExpr), OP_MAKE_ARRAY]
           [] t = "EXP_ARRAY_INDEX" ->
                GenerateCode[CompileExpr(CompileArrayPush[cs, exp], exp.indexExpr),
                             OP_GETINDEX]
           [] t = "EXP_RETURN" ->
                IF exp.retExpr # NoExpr
                THEN GenerateCode[CompileExpr(cs, exp.retExpr), OP_RETURN_VALUE]
                ELSE GenerateCode[cs, OP_RETURN]
           [] OTHER -> cs

CompileExpr(cs, exp) == CompileCase[cs, exp]

\* void CompileFile(FILE* in)
CompileFile[cs \in Any, in \in Any] ==
    LET Parsed[prog \in Any] ==
          IF prog.cs.err # "" THEN prog.cs
          ELSE GenerateCode[CompileProgram[[prog.cs EXCEPT !.ast = prog.e],
                                           prog.e, 1], OP_HALT]
    IN Parsed[ParseProgram[[cs EXCEPT !.in = in, !.CurTok = ""]]]

(***************************************************************************)
(* The machine.  The definitions below take the machine m, a record of the *)
(* C globals, and return it changed.  An object reference is the object's  *)
(* index in heap, 0 is NULL and -1 a pointer read from outside an array.   *)
(* heap keeps a freed object's record, with freed set: what a read of it   *)
(* yields is decided by the step's u, one of Undef.                        *)
(*   status  "ok", "exit" (exit(1) or a failed assert) or "crash"          *)
(*   undef   the undefined operations performed so far                     *)
(*   calls, ret, gc, beyond, cpRet: history, read only by the properties   *)
(***************************************************************************)
NULL == 0
Undef == {"stale", "zero", "one"}

\* The outcomes of a step: u matters only to a step that performs an
\* undefined operation
Outcomes(undefined) == IF undefined THEN Undef ELSE {"stale"}

\* What an undefined read yields: the value last stored there, or garbage
UndefValue(u, stale) == CASE u = "stale" -> stale [] u = "zero" -> 0 [] OTHER -> 1

Fatal[m \in Any, msg \in Any] ==
    IF m.status = "ok" THEN [m EXCEPT !.status = "exit", !.msg = msg] ELSE m
Crash[m \in Any, msg \in Any] ==
    IF m.status = "ok" THEN [m EXCEPT !.status = "crash", !.msg = msg] ELSE m
Undefined[m \in Any, what \in Any] ==
    [m EXCEPT !.undef = @ \cup {what}, !.nundef = @ + 1]

\* What a function that returns a value returns: the machine and the value
Val[m \in Any, val \in Any] == [m |-> m, val |-> val]

IsObject(m, obj) == obj \in 1..Len(m.heap)
Live(m, obj) == IsObject(m, obj) /\ ~m.heap[obj].freed

\* void DeleteObject(Object* obj): the string, the array storage and the
\* object are freed
DeleteObject(o) == [o EXCEPT !.freed = TRUE]

\* A Mark that does not look into arrays
NoChildren(o) == << >>

\* The children Mark recurses into: the non-null elements of an array, in
\* order
Children(o) ==
    IF o.type = "OBJ_ARRAY"
    THEN SelectSeq(o.values, LAMBDA v : v # NULL)
    ELSE << >>

\* void Mark(Object* obj), on g = [marked, div, uaf] and h = [heap, u].
\* marked is the set of the objects whose marked member is set.  path holds
\* the objects whose Mark is in progress: they are not marked yet (the mark
\* is set after the recursion), so reaching one of them again recurses
\* without end (div).  A freed or wild object is read all the same (uaf).
RECURSIVE Mark(_, _, _, _)

\* for(i ...) Mark(objs[i]), for i from lo to hi, by halves
MarkEach[g \in Any, h \in Any, objs \in Any, lo \in Any, hi \in Any, path \in Any] ==
    IF g.div \/ lo > hi THEN g
    ELSE IF lo = hi THEN Mark(g, h, objs[lo], path)
    ELSE MarkEach[MarkEach[g, h, objs, lo, (lo + hi) \div 2, path],
                  h, objs, ((lo + hi) \div 2) + 1, hi, path]

MarkObject[g \in Any, h \in Any, obj \in Any, path \in Any] ==
    LET Done[g1 \in Any] ==
          IF g1.div THEN g1
          ELSE [g1 EXCEPT !.marked = @ \cup {obj},
                          !.uaf = @ \/ h.heap[obj].freed]
        Values[c \in Any] == Done[MarkEach[g, h, c, 1, Len(c), path \cup {obj}]]
    IN IF g.div THEN g
       ELSE IF obj = NULL THEN g
       ELSE IF obj \notin 1..Len(h.heap) THEN [g EXCEPT !.uaf = TRUE]
       ELSE IF h.heap[obj].freed /\ h.u # "stale" THEN [g EXCEPT !.uaf = TRUE]
       ELSE IF obj \in g.marked \/ h.heap[obj].marked
            THEN [g EXCEPT !.uaf = @ \/ h.heap[obj].freed]
       ELSE IF obj \in path THEN [g EXCEPT !.div = TRUE]
       ELSE Values[Children(h.heap[obj])]

Mark(g, h, obj, path) == MarkObject[g, h, obj, path]

\* Stack[i] as a read sees it: the static array starts zeroed
StackSlot(m, i) ==
    IF i \in 0..(Len(m.Stack) - 1) THEN m.Stack[i + 1]
    ELSE IF i \in 0..(MAX_STACK - 1) THEN NULL
    ELSE -1

\* The roots MarkAll visits, in order
Roots[m \in Any] ==
    [i \in 1..(IF m.StackSize > 0 THEN m.StackSize ELSE 0) |-> StackSlot(m, i - 1)]
    \o [i \in 1..m.RuntimeVariableAmount |-> m.Variables[i].object]

\* void MarkAll()
MarkAll[m \in Any, u \in Any] ==
    LET Each[roots \in Any] ==
          MarkEach[[marked |-> {}, div |-> FALSE, uaf |-> FALSE],
                   [heap |-> m.heap, u |-> u], roots, 1, Len(roots), {}]
    IN Each[Roots[m]]

\* What Sweep does with an object of the list: unlink and delete it, or
\* keep it
Unreached(o) == ~o.marked

\* A Sweep that leaves the mark of the objects it keeps
StaysMarked(o) == o

\* (*object)->marked = 0
Unmarked(o) == [o EXCEPT !.marked = FALSE]

\* void Sweep(), after a MarkAll that set the marked member of the objects
\* in marked: the unmarked objects of the list are unlinked and deleted,
\* the others have their mark cleared.  An object that is not in the list
\* is left as MarkAll left it.
Sweep[m \in Any, marked \in Any] ==
    LET Unlink[h \in Any, kept \in Any, dead \in Any] ==
          [m EXCEPT !.NumObjects = @ - Cardinality(dead),
                    !.GCHead = kept,
                    !.heap = << >> \o [obj \in 1..Len(h) |->
                                         IF obj \in dead THEN DeleteObject(h[obj])
                                         ELSE IF \E i \in 1..Len(kept) : kept[i] = obj
                                         THEN Unmarked(h[obj])
                                         ELSE h[obj]]]
        Split[h \in Any, kept \in Any] ==
          Unlink[h, kept, {m.GCHead[i] : i \in 1..Len(m.GCHead)}
                            \ {kept[i] : i \in 1..Len(kept)}]
        MarkAllDone[h \in Any] ==
          Split[h, SelectSeq(m.GCHead, LAMBDA obj : ~Unreached(h[obj]))]
    IN MarkAllDone[<< >> \o [obj \in 1..Len(m.heap) |->
                              [m.heap[obj] EXCEPT !.marked = @ \/ obj \in marked]]]

\* The live objects reachable from a set of live objects through array
\* elements
ReachableFrom[heap \in Any, S \in Any] ==
    LET Grown[T \in Any] == IF T = S THEN S ELSE ReachableFrom[heap, T]
    IN Grown[S \cup {v \in UNION {{heap[o].values[k] : k \in 1..Len(heap[o].values)} :
                                    o \in S} :
                       v \in 1..Len(heap) /\ ~heap[v].freed}]

\* The live objects the roots refer to
RootSet[m \in Any] ==
    {obj \in {StackSlot(m, i) : i \in 0..(m.StackSize - 1)}
             \cup {m.Variables[i].object : i \in 1..m.RuntimeVariableAmount} :
       Live(m, obj)}

Reach[m \in Any] == ReachableFrom[m.heap, RootSet[m]]

\* void GarbageCollect().  gc records the collection: the objects reachable
\* from the roots and the heap as they were when it started, and the list
\* as it left it.
GarbageCollect[m \in Any, u \in Any] ==
    LET Noted[m3 \in Any, reach \in Any] ==
          [m3 EXCEPT !.MaxNumObjects = m3.NumObjects * 2,
                     !.gc = [n |-> m.gc.n + 1,
                             reach |-> reach,
                             before |-> [o \in reach |-> m.heap[o]],
                             after |-> [o \in reach |-> m3.heap[o]],
                             list |-> m3.GCHead]]
        Marked[g \in Any, m1 \in Any] ==
          IF g.div THEN Crash[m1, "Mark recurses without end"]
          ELSE Noted[Sweep[m1, g.marked], Reach[m]]
        Read[g \in Any] ==
          Marked[g, IF g.uaf THEN Undefined[m, "use after free"] ELSE m]
    IN IF m.status # "ok" THEN m ELSE Read[MarkAll[m, u]]

\* A test that lets the count reach the threshold
MustCollectAbove(NumObjects, MaxNumObjects) == NumObjects > MaxNumObjects

\* The test of NewObject that starts a collection
MustCollect(NumObjects, MaxNumObjects) == NumObjects >= MaxNumObjects

NoAlloc == [op |-> "none"]

\* Object* NewObject(ObjectType type), then the caller's stores into the
\* object: [m, val].  hist.alloc records the allocation: the count and the
\* threshold as NewObject was entered, and the number of collections done,
\* the threshold and the list as the object was about to be linked.
NewObject[m \in Any, o \in Any, u \in Any] ==
    LET Linked[m1 \in Any] ==
          IF m1.status # "ok" THEN Val[m1, NULL]
          ELSE Val[[m1 EXCEPT !.heap = Append(@, [o EXCEPT !.marked = FALSE,
                                                          !.freed = FALSE]),
                              !.GCHead = <<Len(m1.heap) + 1>> \o @,
                              !.NumObjects = @ + 1,
                              !.hist.alloc =
                                 [op |-> "NewObject", NumObjects |-> m.NumObjects,
                                  MaxNumObjects |-> m.MaxNumObjects,
                                  collections |-> m1.gc.n - m.gc.n,
                                  threshold |-> m1.MaxNumObjects,
                                  survivors |-> Len(m1.GCHead)]],
                   Len(m1.heap) + 1]
    IN IF MustCollect(m.NumObjects, m.MaxNumObjects)
       THEN Linked[GarbageCollect[m, u]]
       ELSE Linked[m]

NoObject == [type |-> "OBJ_NUM", number |-> 0, string |-> "", values |-> << >>,
             marked |-> FALSE, freed |-> FALSE]

\* Object* NewNumber(double value)
NewNumber[m \in Any, value \in Any, u \in Any] ==
    NewObject[m, [NoObject EXCEPT !.number = value], u]

\* Object* NewString(char* string)
NewString[m \in Any, string \in Any, u \in Any] ==
    NewObject[m, [NoObject EXCEPT !.type = "OBJ_STRING", !.string = string], u]

\* An array storage left as malloc returns it
NotZeroed(length) == << >> \o [i \in 1..length |-> -1]

\* memset(obj->array.values, 0, sizeof(Object*) * length)
Zeroed(length) == << >> \o [i \in 1..length |-> NULL]

\* Object* NewArray(int length): a negative length makes the size passed to
\* malloc wrap around, and emalloc's assert fail
NewArray[m \in Any, length \in Any, u \in Any] ==
    LET Filled[n \in Any] ==
          IF n.m.status = "ok" /\ length < 0
          THEN Val[Fatal[n.m, "Out of memory!"], NULL]
          ELSE n
    IN Filled[NewObject[m, [NoObject EXCEPT
                              !.type = "OBJ_ARRAY",
                              !.values = Zeroed(length)], u]]

(***************************************************************************)
(* The stacks and the instructions                                         *)
(***************************************************************************)
\* Program[i]: the static buffer is zero beyond ProgramLength
ProgramWord(m, i) == IF i \in 0..(Len(m.Program) - 1) THEN m.Program[i + 1] ELSE 0

\* int ReadInteger(): [m, val]
ReadInteger[m \in Any] ==
    Val[[m EXCEPT !.ProgramCounter = @ + 4],
        WordsToInt[<<ProgramWord(m, m.ProgramCounter),
                     ProgramWord(m, m.ProgramCounter + 1),
                     ProgramWord(m, m.ProgramCounter + 2),
                     ProgramWord(m, m.ProgramCounter + 3)>>]]

\* a[i] = value on the part of a zeroed static array that has been written
\* so far
Put[a \in Any, i \in Any, value \in Any] ==
    IF i < Len(a) THEN [a EXCEPT ![i + 1] = value]
    ELSE Append(a \o [k \in 1..(i - Len(a)) |-> 0], value)

\* Stack[i] = value.  A store outside the array is undefined: the model
\* records it and leaves the array as it is.
StackStore[m \in Any, i \in Any, value \in Any] ==
    IF i \in 0..(MAX_STACK - 1)
    THEN [m EXCEPT !.Stack = Put[@, i, value]]
    ELSE Undefined[m, "store outside Stack"]

\* Stack[i], read.  A read outside the array is undefined and yields a
\* pointer to no object.
StackLoad[m \in Any, i \in Any] ==
    Val[IF i \in 0..(MAX_STACK - 1) THEN m ELSE Undefined[m, "read outside Stack"],
        StackSlot(m, i)]

\* hist.edge is the history of a DoPush entered with the stack full or of a
\* DoPop entered with it empty: the stack and the count of undefined
\* operations as they were then.
NoEdge == [op |-> "none"]
NoLocal == [op |-> "none"]

AtEdge[m \in Any, op \in Any] ==
    IF (op = "push" /\ m.StackSize = MAX_STACK) \/ (op = "pop" /\ m.StackSize = 0)
    THEN [m EXCEPT !.hist.edge = [op |-> op, Stack |-> m.Stack, nundef |-> m.nundef]]
    ELSE m

\* An overflow test that lets a push on the full stack through
StackFullAbove(StackSize) == StackSize > MAX_STACK

\* The overflow test of DoPush
StackFull(StackSize) == StackSize >= MAX_STACK

\* void DoPush(Object* value)
DoPush[m \in Any, value \in Any] ==
    LET Tried[m1 \in Any] ==
          IF StackFull(m1.StackSize) THEN Fatal[m1, "Stack Overflow"]
          ELSE [StackStore[m1, m1.StackSize, value] EXCEPT !.StackSize = @ + 1]
    IN IF m.status # "ok" THEN m ELSE Tried[AtEdge[m, "push"]]

\* The underflow test of DoPop
StackEmpty(StackSize) == StackSize <= 0

\* Object* DoPop(): [m, val]
DoPop[m \in Any] ==
    LET Tried[m1 \in Any] ==
          IF StackEmpty(m1.StackSize) THEN Val[Fatal[m1, "Stack Underflow"], NULL]
          ELSE Val[[m1 EXCEPT !.StackSize = @ - 1], StackSlot(m1, m1.StackSize - 1)]
    IN IF m.status # "ok" THEN Val[m, NULL] ELSE Tried[AtEdge[m, "pop"]]

\* IndirStack[IndirStackSize++] = word.  The code does not compare
\* IndirStackSize with MAX_INDIR: a store at MAX_INDIR or beyond lands
\* outside the array.  The model keeps such words in IndirStack past its
\* MAX_INDIR elements and records the undefined store.
IndirPush[m \in Any, word \in Any] ==
    LET i == m.IndirStackSize
        Stored[m1 \in Any] ==
          [m1 EXCEPT !.IndirStackSize = @ + 1,
                     !.IndirStack = IF i < 0 THEN @ ELSE Put[@, i, word]]
    IN IF i \in 0..(MAX_INDIR - 1) THEN Stored[m]
       ELSE Stored[Undefined[m, "store outside IndirStack"]]

\* IndirStack[--IndirStackSize]: [m, val].  A word outside the array is an
\* undefined read: what was stored there, or garbage.  Below the array
\* there is nothing the program has stored: whatever is read there is
\* garbage, and the run is tainted by it.
IndirPop[m \in Any, u \in Any] ==
    LET i == m.IndirStackSize - 1
        stored == IF i \in 0..(Len(m.IndirStack) - 1) THEN m.IndirStack[i + 1] ELSE 0
    IN IF i \in 0..(MAX_INDIR - 1) THEN Val[[m EXCEPT !.IndirStackSize = i], stored]
       ELSE Val[Undefined[[m EXCEPT !.IndirStackSize = i,
                                    !.tainted = IF i < 0 /\ @ = 0 THEN 1 ELSE @],
                          "read outside IndirStack"],
                UndefValue(u, stored)]

\* void DoPushIndir(int nargs).  calls is the history of the frames saved:
\* the stack size, the frame pointer and the pc at the call.
DoPushIndir[m \in Any, nargs \in Any, by \in Any, callPc \in Any] ==
    [IndirPush[IndirPush[IndirPush[m, nargs], m.FramePointer], m.ProgramCounter]
       EXCEPT !.FramePointer = m.StackSize,
              !.calls = Append(@, [by |-> by, nargs |-> nargs, size |-> m.StackSize,
                                   fp |-> m.FramePointer, pc |-> m.ProgramCounter,
                                   callPc |-> callPc, indir |-> m.IndirStackSize,
                                   loop |-> 0])]

\* void DoPopIndir()
DoPopIndir[m \in Any, u \in Any] ==
    LET PrevPc[prevPc \in Any] ==
          LET PrevFp[prevFp \in Any] ==
                LET Nargs[nargs \in Any] ==
                      [nargs.m EXCEPT !.StackSize = @ - nargs.val,
                                      !.FramePointer = prevFp.val,
                                      !.ProgramCounter = prevPc.val]
                IN Nargs[IndirPop[prevFp.m, u]]
          IN PrevFp[IndirPop[prevPc.m, u]]
    IN PrevPc[IndirPop[[m EXCEPT !.StackSize = m.FramePointer], u]]

\* A member of *obj, read: [m, val].  NULL faults; a freed object, a
\* pointer to no object and the member of another type's object are
\* undefined reads.
ReadMember[m \in Any, obj \in Any, u \in Any, type \in Any, stored \in Any,
           what \in Any] ==
    IF m.status # "ok" THEN Val[m, 0]
    ELSE IF obj = NULL THEN Val[Crash[m, "NULL dereferenced"], 0]
    ELSE IF ~IsObject(m, obj)
         THEN Val[Undefined[m, "wild pointer"], UndefValue(u, 0)]
    ELSE IF m.heap[obj].freed
         THEN Val[Undefined[m, "use after free"], UndefValue(u, stored)]
    ELSE IF m.heap[obj].type # type
         THEN Val[Undefined[m, what], UndefValue(u, 0)]
    ELSE Val[m, stored]

\* obj->number, read: [m, val]
ReadNumber[m \in Any, obj \in Any, u \in Any] ==
    ReadMember[m, obj, u, "OBJ_NUM",
               IF IsObject(m, obj) THEN m.heap[obj].number ELSE 0,
               "number read from a non-number"]

\* obj->array.length, read: [m, val]
ReadLength[m \in Any, obj \in Any, u \in Any] ==
    ReadMember[m, obj, u, "OBJ_ARRAY",
               IF IsObject(m, obj) THEN Len(m.heap[obj].values) ELSE 0,
               "length read from a non-array"]

Abs(a) == IF a < 0 THEN -a ELSE a

\* A bit and the other bits of a two's complement integer
Bit(x) == IF x >= 0 THEN x % 2 ELSE 1 - (((-x) - 1) % 2)
Half(x) == IF x >= 0 THEN x \div 2 ELSE -((((-x) - 1) \div 2) + 1)

\* x | y (isOr) and x & y on the n low bits and the sign
BitsOp[x \in Any, y \in Any, isOr \in Any, n \in Any] ==
    IF n = 0 THEN (IF isOr THEN (IF x < 0 \/ y < 0 THEN -1 ELSE 0)
                           ELSE (IF x < 0 /\ y < 0 THEN -1 ELSE 0))
    ELSE (IF isOr THEN (IF Bit(x) + Bit(y) > 0 THEN 1 ELSE 0) ELSE Bit(x) * Bit(y))
         + 2 * BitsOp[Half(x), Half(y), isOr, n - 1]

\* The result of BIN_OP and BIN_OP_INT on two numbers: [ok, val].  ok is
\* FALSE where C leaves the result undefined (% by zero) or it is not an
\* integer (/)
BinOpResult[op \in Any, a \in Any, b \in Any] ==
    LET T(v) == [ok |-> TRUE, val |-> v]
        B(c) == [ok |-> TRUE, val |-> IF c THEN 1 ELSE 0]
    IN CASE op = OP_ADD -> T(a + b)
         [] op = OP_SUB -> T(a - b)
         [] op = OP_MUL -> T(a * b)
         [] op = OP_DIV -> IF b # 0 /\ Abs(a) % Abs(b) = 0
                           THEN T((Abs(a) \div Abs(b)) * (IF (a < 0) = (b < 0) THEN 1 ELSE -1))
                           ELSE [ok |-> FALSE, val |-> 0]
         [] op = OP_MOD -> IF b # 0
                           THEN T((Abs(a) % Abs(b)) * (IF a < 0 THEN -1 ELSE 1))
                           ELSE [ok |-> FALSE, val |-> 0]
         [] op = OP_OR -> T(BitsOp[a, b, TRUE, 31])
         [] op = OP_AND -> T(BitsOp[a, b, FALSE, 31])
         [] op = OP_LT -> B(a < b)
         [] op = OP_LTE -> B(a <= b)
         [] op = OP_GT -> B(a > b)
         [] op = OP_GTE -> B(a >= b)
         [] op = OP_EQU -> B(a = b)
         [] op = OP_NEQU -> B(a # b)

IncPc[m \in Any] == [m EXCEPT !.ProgramCounter = @ + 1]

\* case OP_PUSH
ExecPush[m \in Any, u \in Any] ==
    LET Cidx[r \in Any] ==
          LET New[n \in Any] == DoPush[n.m, n.val]
              Const[cip \in Any] ==
                IF cip.type = "CST_NUM" THEN New[NewNumber[r.m, cip.number, u]]
                ELSE New[NewString[r.m, cip.string, u]]
          IN IF r.val \notin 0..(Len(m.Constants) - 1)
             THEN Crash[Undefined[r.m, "read outside Constants"], "wild constant"]
             ELSE Const[m.Constants[r.val + 1]]
    IN Cidx[ReadInteger[IncPc[m]]]

\* BIN_OP and BIN_OP_INT: both operands are popped, then the result is
\* allocated, then the operands' numbers are read
ExecBinOp[m \in Any, op \in Any, u \in Any] ==
    LET Val2[val2 \in Any] ==
          LET Val1[val1 \in Any] ==
                LET Result[result \in Any] ==
                      LET N1[n1 \in Any] ==
                            LET N2[n2 \in Any] ==
                                  LET Op[v \in Any] ==
                                        IF n2.m.status # "ok" THEN n2.m
                                        ELSE IF ~v.ok
                                        THEN Crash[n2.m, "result outside the integers"]
                                        ELSE IncPc[DoPush[
                                               [n2.m EXCEPT
                                                  !.heap[result.val].number = v.val],
                                               result.val]]
                                  IN IF n2.m.status # "ok" THEN n2.m
                                     ELSE Op[BinOpResult[op, n1.val, n2.val]]
                            IN N2[ReadNumber[n1.m, val2.val, u]]
                      IN N1[ReadNumber[result.m, val1.val, u]]
                IN Result[NewObject[val1.m, NoObject, u]]
          IN Val1[DoPop[val2.m]]
    IN Val2[DoPop[m]]

\* What printf("%g\n") or printf("%s\n") writes for an object
Printed(o, u) ==
    CASE o.type = "OBJ_NUM" ->
           <<[type |-> "OBJ_NUM",
              number |-> UndefValue(IF o.freed THEN u ELSE "stale", o.number),
              string |-> ""]>>
      [] o.type = "OBJ_STRING" ->
           <<[type |-> "OBJ_STRING", number |-> 0, string |-> o.string]>>
      [] OTHER -> << >>

\* case OP_PRINT
ExecPrint[m \in Any, u \in Any] ==
    LET Obj[obj \in Any] ==
          IF obj.m.status # "ok" THEN obj.m
          ELSE IF obj.val = NULL THEN Crash[obj.m, "NULL dereferenced"]
          ELSE IF ~IsObject(m, obj.val)
          THEN Crash[Undefined[obj.m, "wild pointer"], "wild pointer"]
          ELSE IF m.heap[obj.val].freed
          THEN IncPc[[Undefined[obj.m, "use after free"] EXCEPT
                        !.out = @ \o Printed(m.heap[obj.val], u)]]
          ELSE IncPc[[obj.m EXCEPT !.out = @ \o Printed(m.heap[obj.val], u)]]
    IN Obj[DoPop[m]]

\* case OP_SET
ExecSet[m \in Any, u \in Any] ==
    LET VarIdx[r \in Any] ==
          LET Value[v \in Any] ==
                IF v.m.status # "ok" THEN v.m
                ELSE [v.m EXCEPT !.Variables[r.val + 1].object = v.val]
          IN IF r.val \notin 0..(Len(m.Variables) - 1)
             THEN Crash[Undefined[r.m, "store outside Variables"], "wild operand"]
             ELSE Value[DoPop[[r.m EXCEPT !.RuntimeVariableAmount =
                                            IF @ < r.val + 1 THEN r.val + 1 ELSE @]]]
    IN VarIdx[ReadInteger[IncPc[m]]]

\* case OP_GET: the slot is pushed as it is, NULL included
ExecGet[m \in Any, u \in Any] ==
    LET VarIdx[r \in Any] ==
          IF r.val \notin 0..(Len(m.Variables) - 1)
          THEN Crash[Undefined[r.m, "read outside Variables"], "wild operand"]
          ELSE DoPush[r.m, m.Variables[r.val + 1].object]
    IN VarIdx[ReadInteger[IncPc[m]]]

\* The buffer of DoRead: [bufferLength, bufferCapacity, i] and outside, the
\* indices stored at or beyond the capacity the buffer had then
NewBuffer == [bufferLength |-> 0, bufferCapacity |-> 1, i |-> 0, outside |-> {}]

\* buffer[i] = c
BufferStore[b \in Any] ==
    [b EXCEPT !.outside = IF b.i >= b.bufferCapacity THEN @ \cup {b.i} ELSE @]

\* The loop of DoRead on the n characters before the newline, then
\* buffer[i] = '\0'.  bufferLength is tested and never changed.
ReadLoop[b \in Any, n \in Any] ==
    LET Grown[g \in Any] == ReadLoop[[BufferStore[g] EXCEPT !.i = @ + 1], n - 1]
    IN IF n = 0 THEN BufferStore[b]
       ELSE IF b.bufferLength + 1 >= b.bufferCapacity
       THEN Grown[[b EXCEPT !.bufferCapacity = @ * 2]]
       ELSE Grown[b]

\* void DoRead(), up to the allocation of the object
DoReadBuffer[n \in Any] == ReadLoop[NewBuffer, n]

\* case OP_READ: DoRead() with the line read from stdin.  A store outside
\* the buffer is undefined.
ExecRead[m \in Any, line \in Any, u \in Any] ==
    LET Obj[n \in Any] == IncPc[DoPush[n.m, n.val]]
        Read[b \in Any] ==
          Obj[NewString[IF b.outside = {} THEN m
                        ELSE Undefined[m, "store outside buffer"], line, u]]
    IN Read[DoReadBuffer[Len(line)]]

\* case OP_GOTO
ExecGoto[m \in Any, u \in Any] ==
    LET NewPc[r \in Any] == [r.m EXCEPT !.ProgramCounter = r.val]
    IN NewPc[ReadInteger[IncPc[m]]]

\* case OP_GOTOZ (onZero) and case OP_GOTONZ
ExecGotoIf[m \in Any, onZero \in Any, u \in Any] ==
    LET NewPc[r \in Any] ==
          LET Number[n \in Any] ==
                IF n.m.status # "ok" THEN n.m
                ELSE IF (n.val = 0) = onZero THEN [n.m EXCEPT !.ProgramCounter = r.val]
                ELSE n.m
              Popped[v \in Any] == Number[ReadNumber[v.m, v.val, u]]
          IN Popped[DoPop[r.m]]
    IN NewPc[ReadInteger[IncPc[m]]]

\* A frame of calls is given back: ret records the return, and the loop of
\* a CallProc whose procedure has returned is told so
NoRet == [by |-> "none"]

Returned[f \in Any, m \in Any, viaValue \in Any] ==
    [by |-> f.by, nargs |-> f.nargs, size |-> f.size, fp |-> f.fp,
     pc |-> f.pc, callPc |-> f.callPc, viaValue |-> viaValue,
     sizeAfter |-> m.StackSize, fpAfter |-> m.FramePointer,
     pcAfter |-> m.ProgramCounter]

NoteReturn[m \in Any, before \in Any, viaValue \in Any] ==
    LET Frame[f \in Any, r \in Any] ==
          [m EXCEPT !.calls = SubSeq(@, 1, Len(@) - 1),
                    !.ret = r,
                    !.loops = IF f.by = "CALL" \/ f.loop \notin 1..Len(@) THEN @
                              ELSE [@ EXCEPT ![f.loop].returned = TRUE,
                                             ![f.loop].ret = r]]
    IN IF before.calls = << >> \/ m.status # "ok" THEN m
       ELSE Frame[before.calls[Len(before.calls)],
                  Returned[before.calls[Len(before.calls)], m, viaValue]]

\* case OP_CALL
ExecCall[m \in Any, u \in Any] ==
    LET Nargs[nargs \in Any] ==
          LET PcIdx[pcIdx \in Any] ==
                IF pcIdx.val \notin 0..(Len(m.FunctionPcs) - 1)
                THEN Crash[Undefined[DoPushIndir[pcIdx.m, nargs.val, "CALL",
                                                 m.ProgramCounter],
                                     "read outside FunctionPcs"],
                           "wild operand"]
                ELSE [DoPushIndir[pcIdx.m, nargs.val, "CALL", m.ProgramCounter]
                        EXCEPT !.ProgramCounter = m.FunctionPcs[pcIdx.val + 1]]
          IN PcIdx[ReadInteger[nargs.m]]
    IN Nargs[ReadInteger[IncPc[m]]]

\* case OP_RETURN
ExecReturn[m \in Any, u \in Any] == NoteReturn[DoPopIndir[m, u], m, FALSE]

\* case OP_RETURN_VALUE
ExecReturnValue[m \in Any, u \in Any] ==
    LET RetVal[retVal \in Any] ==
          IF retVal.m.status # "ok" THEN retVal.m
          ELSE NoteReturn[DoPush[DoPopIndir[retVal.m, u], retVal.val], m, TRUE]
    IN RetVal[DoPop[m]]

\* hist.local is the history of the OP_GETLOCAL or OP_SETLOCAL executed:
\* the operand, the slot FramePointer + localIdx and StackSize as the slot
\* is accessed
AtLocal[m \in Any, op \in Any, localIdx \in Any, fp \in Any] ==
    IF m.status # "ok" THEN m
    ELSE [m EXCEPT !.hist.local = [op |-> op, localIdx |-> localIdx, fp |-> fp,
                                   slot |-> fp + localIdx,
                                   StackSize |-> m.StackSize]]

\* case OP_GETLOCAL
ExecGetLocal[m \in Any, u \in Any] ==
    LET LocalIdx[localIdx \in Any] ==
          LET Slot[v \in Any] == DoPush[v.m, v.val]
          IN Slot[StackLoad[AtLocal[localIdx.m, "GETLOCAL", localIdx.val,
                                    m.FramePointer],
                            m.FramePointer + localIdx.val]]
    IN LocalIdx[ReadInteger[IncPc[m]]]

\* case OP_SETLOCAL
ExecSetLocal[m \in Any, u \in Any] ==
    LET LocalIdx[localIdx \in Any] ==
          LET Value[val \in Any] ==
                IF val.m.status # "ok" THEN val.m
                ELSE StackStore[AtLocal[val.m, "SETLOCAL", localIdx.val,
                                        m.FramePointer],
                                m.FramePointer + localIdx.val, val.val]
          IN Value[DoPop[localIdx.m]]
    IN LocalIdx[ReadInteger[IncPc[m]]]

\* case OP_MAKE_ARRAY
ExecMakeArray[m \in Any, u \in Any] ==
    LET Array[array \in Any] == DoPush[array.m, array.val]
        Length[length \in Any] ==
          IF length.m.status # "ok" THEN length.m
          ELSE Array[NewArray[length.m, length.val, u]]
        Popped[v \in Any] == Length[ReadNumber[v.m, v.val, u]]
    IN Popped[DoPop[IncPc[m]]]

\* A bounds test that lets index = length through
IndexUpToLength(index, length) == index >= 0 /\ index <= length

\* The bounds test of OP_SETINDEX and OP_GETINDEX
IndexInBounds(index, length) == index >= 0 /\ index < length

\* Whether values[index] is an element of the live array obj
InArray(m, obj, index) ==
    Live(m, obj) /\ index \in 0..(Len(m.heap[obj].values) - 1)

\* What access records of an array slot touched
Access[m \in Any, op \in Any, obj \in Any, index \in Any] ==
    IF InArray(m, obj, index)
    THEN [m EXCEPT !.access = [op |-> op, obj |-> obj, index |-> index]]
    ELSE Undefined[[m EXCEPT !.access = [op |-> op, obj |-> obj, index |-> index]],
                   "access outside array"]

\* obj->array.values[index], read.  access is the history of the array
\* slots touched; a slot outside the array is an undefined access.
ArrayLoad[m \in Any, obj \in Any, index \in Any] ==
    Val[Access[m, "read", obj, index],
        IF InArray(m, obj, index) THEN m.heap[obj].values[index + 1] ELSE -1]

\* obj->array.values[index] = value
ArrayStore[m \in Any, obj \in Any, index \in Any, value \in Any] ==
    IF InArray(m, obj, index)
    THEN [Access[m, "write", obj, index] EXCEPT
            !.heap[obj].values[index + 1] = value,
            !.hist.written = @ \cup {<<obj, index>>}]
    ELSE Access[m, "write", obj, index]

\* The operands of OP_SETINDEX and OP_GETINDEX once popped: indexed is the
\* history of the test made on them
Indexed[m \in Any, op \in Any, obj \in Any, index \in Any, length \in Any] ==
    [m EXCEPT !.indexed = [op |-> op, obj |-> obj, index |-> index,
                           length |-> length]]

\* case OP_SETINDEX
ExecSetIndex[m \in Any, u \in Any] ==
    LET Value[value \in Any] ==
          LET Index[index \in Any] ==
                LET Obj[obj \in Any] ==
                      LET Length[length \in Any] ==
                            IF length.m.status # "ok" THEN length.m
                            ELSE IF IndexInBounds(index.val, length.val)
                            THEN ArrayStore[Indexed[length.m, "SETINDEX", obj.val,
                                                    index.val, length.val],
                                            obj.val, index.val, value.val]
                            ELSE Fatal[Indexed[length.m, "SETINDEX", obj.val,
                                               index.val, length.val],
                                       "Array index out of bounds error"]
                      IN Length[ReadLength[obj.m, obj.val, u]]
                IN Obj[DoPop[index.m]]
              Popped[i \in Any] == Index[ReadNumber[i.m, i.val, u]]
          IN Popped[DoPop[value.m]]
    IN Value[DoPop[IncPc[m]]]

\* case OP_GETINDEX
ExecGetIndex[m \in Any, u \in Any] ==
    LET Index[index \in Any] ==
          LET Obj[obj \in Any] ==
                LET Zero[zero \in Any] == DoPush[zero.m, zero.val]
                    Slot[slot \in Any] ==
                      IF slot.val # NULL THEN DoPush[slot.m, slot.val]
                      ELSE Zero[NewNumber[slot.m, 0, u]]
                    Length[length \in Any] ==
                      IF length.m.status # "ok" THEN length.m
                      ELSE IF IndexInBounds(index.val, length.val)
                      THEN Slot[ArrayLoad[Indexed[length.m, "GETINDEX", obj.val,
                                                  index.val, length.val],
                                          obj.val, index.val]]
                      ELSE Fatal[Indexed[length.m, "GETINDEX", obj.val,
                                         index.val, length.val],
                                 "Array index out of bounds error"]
                IN Length[ReadLength[obj.m, obj.val, u]]
          IN Obj[DoPop[index.m]]
        Popped[i \in Any] == Index[ReadNumber[i.m, i.val, u]]
    IN Popped[DoPop[IncPc[m]]]

\* void CallProc(int id, int nargs), up to its loop: the loop is a frame
\* of loops, run by the steps that follow
CallProc[m \in Any, id \in Any, nargs \in Any, by \in Any] ==
    LET Pushed[m1 \in Any] ==
          [m1 EXCEPT !.ProgramCounter = m.FunctionPcs[id + 1],
                     !.calls[Len(m1.calls)].loop = Len(m.loops) + 1,
                     !.loops = Append(@, [kind |-> "CallProc", by |-> by,
                                          nargs |-> nargs, pc |-> m.ProgramCounter,
                                          fp |-> m.FramePointer, size |-> m.StackSize,
                                          returned |-> FALSE, ret |-> NoRet])]
    IN IF id < 0 THEN m
       ELSE Pushed[DoPushIndir[m, nargs, by, m.ProgramCounter]]

\* The host's foreign functions: ForeignFunctions[0], bound to the name
\* "callback", calls the procedure "cb" with no arguments
ForeignFunctionNames == <<"callback">>
CallbackProc == "cb"

\* case OP_CALLF
ExecCallF[m \in Any, u \in Any] ==
    LET FIdx[fIdx \in Any] ==
          IF fIdx.val \notin 0..(Len(ForeignFunctionNames) - 1)
          THEN Crash[Undefined[fIdx.m, "read outside ForeignFunctions"], "wild operand"]
          ELSE CallProc[fIdx.m, GetProcId[m.FunctionNames, CallbackProc], 0, "foreign"]
    IN FIdx[ReadInteger[IncPc[m]]]

\* void ExecuteCycle(): an opcode that is no case of the switch does nothing
ExecuteCycle[m \in Any, line \in Any, u \in Any] ==
    LET op == ProgramWord(m, m.ProgramCounter)
    IN CASE op = OP_PUSH -> ExecPush[m, u]
         [] op = OP_POP -> IncPc[DoPop[m].m]
         [] op \in OP_ADD..OP_NEQU -> ExecBinOp[m, op, u]
         [] op = OP_PRINT -> ExecPrint[m, u]
         [] op = OP_SET -> ExecSet[m, u]
         [] op = OP_GET -> ExecGet[m, u]
         [] op = OP_READ -> ExecRead[m, line, u]
         [] op = OP_GOTO -> ExecGoto[m, u]
         [] op = OP_GOTOZ -> ExecGotoIf[m, TRUE, u]
         [] op = OP_GOTONZ -> ExecGotoIf[m, FALSE, u]
         [] op = OP_CALL -> ExecCall[m, u]
         [] op = OP_RETURN -> ExecReturn[m, u]
         [] op = OP_RETURN_VALUE -> ExecReturnValue[m, u]
         [] op = OP_CALLF -> ExecCallF[m, u]
         [] op = OP_GETLOCAL -> ExecGetLocal[m, u]
         [] op = OP_SETLOCAL -> ExecSetLocal[m, u]
         [] op = OP_MAKE_ARRAY -> ExecMakeArray[m, u]
         [] op = OP_SETINDEX -> ExecSetIndex[m, u]
         [] op = OP_GETINDEX -> ExecGetIndex[m, u]
         [] op = OP_HALT -> [m EXCEPT !.ProgramCounter = -1]
         [] OTHER -> m

\* The condition of the loops of RunMachine and CallProc
Running(m) == m.ProgramCounter < Len(m.Program) /\ m.ProgramCounter >= 0

(***************************************************************************)
(* The interpreter's life: InitInterpreter, CompileFile, RunMachine,       *)
(* CallProc from the host, DeleteInterpreter                               *)
(***************************************************************************)
NoAccess == [op |-> "none"]
NoIndexed == [op |-> "none"]
NoCollection == [n |-> 0, reach |-> {}, before |-> << >>, after |-> << >>,
                 list |-> << >>]

\* The history the properties read: edge (of this cycle), the array slots
\* written by SETINDEX so far, and the number of objects allocated when this
\* cycle was entered
NoHist ==
    [edge |-> NoEdge, written |-> {}, heapLen |-> 0, alloc |-> NoAlloc,
     local |-> NoLocal]

\* The globals as the loader leaves them: static storage is zeroed
ZeroMachine ==
    [Program |-> << >>, Constants |-> << >>, FunctionPcs |-> << >>,
     FunctionNames |-> << >>, ProgramCounter |-> 0, FramePointer |-> 0,
     Stack |-> << >>, StackSize |-> 0, IndirStack |-> << >>, IndirStackSize |-> 0,
     heap |-> << >>, GCHead |-> << >>, NumObjects |-> 0, MaxNumObjects |-> 0,
     Variables |-> << >>, VariableAmount |-> 0, RuntimeVariableAmount |-> 0,
     status |-> "ok", msg |-> "", undef |-> {}, nundef |-> 0, out |-> << >>,
     gc |-> NoCollection, calls |-> << >>, ret |-> NoRet, loops |-> << >>,
     cpRet |-> [n |-> 0], beyond |-> FALSE, access |-> NoAccess,
     indexed |-> NoIndexed, last |-> [op |-> -1, pc |-> -1], steps |-> 0,
     tainted |-> 0, hist |-> NoHist]

\* void ResetMachine(): Stack, IndirStack and FunctionPcs keep their words
ResetMachine[m \in Any] ==
    [m EXCEPT !.Program = << >>, !.ProgramCounter = -1, !.Constants = << >>,
              !.StackSize = 0, !.FramePointer = 0, !.VariableAmount = 0,
              !.FunctionNames = << >>, !.IndirStackSize = 0, !.GCHead = << >>,
              !.NumObjects = 0, !.RuntimeVariableAmount = 0, !.Variables = << >>]

\* void InitInterpreter()
InitInterpreter[m \in Any] ==
    [ResetMachine[m] EXCEPT !.NumObjects = 0, !.MaxNumObjects = 2]

\* void DeleteInterpreter(): the names and the constants are freed, then
\* StackSize = 0; VariableAmount = 0; GarbageCollect(); ResetMachine();
DeleteInterpreter[m \in Any, u \in Any] ==
    LET Collected[m2 \in Any] == IF m2.status # "ok" THEN m2 ELSE ResetMachine[m2]
    IN Collected[GarbageCollect[[m EXCEPT !.VariableAmount = 0,
                                          !.FunctionNames = << >>,
                                          !.Constants = << >>, !.StackSize = 0], u]]

\* The loop of RunMachine or CallProc, as a frame of loops
Loop(kind, by) ==
    [kind |-> kind, by |-> by, nargs |-> 0, pc |-> 0, fp |-> 0, size |-> 0,
     returned |-> FALSE, ret |-> NoRet]

\* void RunMachine(), up to its loop
RunMachine[m \in Any] ==
    [m EXCEPT !.ProgramCounter = 0, !.loops = Append(@, Loop("RunMachine", "host"))]

\* What CompileFile leaves in the globals the machine runs on
Load[m \in Any, cs \in Any] ==
    IF cs.err # "" THEN Fatal[m, cs.err]
    ELSE [m EXCEPT !.Program = cs.Program, !.Constants = cs.Constants,
                   !.FunctionPcs = cs.FunctionPcs, !.FunctionNames = cs.FunctionNames,
                   !.Variables = cs.Variables, !.VariableAmount = Len(cs.Variables)]

Fact ==
    <<P("TOK_PROC"), Id("fact"), P("("), Id("n"), P(")"),
      P("TOK_IF"), Loc("n"), P("TOK_LTE"), Num(1), P("TOK_THEN"),
      P("TOK_RETURN"), Num(1), P("TOK_END"),
      P("TOK_RETURN"), Loc("n"), P("*"), Id("fact"), P("("), Loc("n"), P("-"),
      Num(1), P(")"), P("TOK_END"),
      P("TOK_WRITE"), Id("fact"), P("("), Num(6), P(")"), P("TOK_END")>>

\* write 1 + 2 end
Sum == <<P("TOK_WRITE"), Num(1), P("+"), Num(2), P("TOK_END")>>

\* a = [2] a[0] = 5 b = 7 write a[0] end write a[1] end
Arr ==
    <<Id("a"), P("="), P("["), Num(2), P("]"),
      Id("a"), P("["), Num(0), P("]"), P("="), Num(5),
      Id("b"), P("="), Num(7),
      P("TOK_WRITE"), Id("a"), P("["), Num(0), P("]"), P("TOK_END"),
      P("TOK_WRITE"), Id("a"), P("["), Num(1), P("]"), P("TOK_END")>>

\* a = [2] write a[2] end
OobGet ==
    <<Id("a"), P("="), P("["), Num(2), P("]"),
      P("TOK_WRITE"), Id("a"), P("["), Num(2), P("]"), P("TOK_END")>>

\* a = [2] a[0 - 1] = 1
OobSet ==
    <<Id("a"), P("="), P("["), Num(2), P("]"),
      Id("a"), P("["), Num(0), P("-"), Num(1), P("]"), P("="), Num(1)>>

\* a = [1] a[0] = a b = 1 c = 2
Cyc ==
    <<Id("a"), P("="), P("["), Num(1), P("]"),
      Id("a"), P("["), Num(0), P("]"), P("="), Id("a"),
      Id("b"), P("="), Num(1), Id("c"), P("="), Num(2)>>

\* write x[0] end
GetNull == <<P("TOK_WRITE"), Id("x"), P("["), Num(0), P("]"), P("TOK_END")>>

\* if 0 then x = 1 end write x end
GetLate ==
    <<P("TOK_IF"), Num(0), P("TOK_THEN"), Id("x"), P("="), Num(1), P("TOK_END"),
      P("TOK_WRITE"), Id("x"), P("TOK_END")>>

\* write x end
GetUnset == <<P("TOK_WRITE"), Id("x"), P("TOK_END")>>

\* proc f(n) if $n then f($n - 1) end end f(342): one frame more than
\* IndirStack holds, and one more
Deep ==
    <<P("TOK_PROC"), Id("f"), P("("), Id("n"), P(")"),
      P("TOK_IF"), Loc("n"), P("TOK_THEN"),
      Id("f"), P("("), Loc("n"), P("-"), Num(1), P(")"), P("TOK_END"),
      P("TOK_END"),
      Id("f"), P("("), Num((MAX_INDIR \div 3) + 1), P(")")>>

\* if 1 then local x = 1 write $x end end
TopLocal ==
    <<P("TOK_IF"), Num(1), P("TOK_THEN"), P("TOK_LOCAL"), Id("x"), P("="), Num(1),
      P("TOK_WRITE"), Loc("x"), P("TOK_END"), P("TOK_END")>>

\* write $q end
TopRef == <<P("TOK_WRITE"), Loc("q"), P("TOK_END")>>

\* proc g(a) local x = 1 if $a then local y = 2 write $x + $y end end
\* if $a then write $y end end return $x end write g(1) end
Scopes ==
    <<P("TOK_PROC"), Id("g"), P("("), Id("a"), P(")"),
      P("TOK_LOCAL"), Id("x"), P("="), Num(1),
      P("TOK_IF"), Loc("a"), P("TOK_THEN"),
      P("TOK_LOCAL"), Id("y"), P("="), Num(2),
      P("TOK_WRITE"), Loc("x"), P("+"), Loc("y"), P("TOK_END"), P("TOK_END"),
      P("TOK_IF"), Loc("a"), P("TOK_THEN"),
      P("TOK_WRITE"), Loc("y"), P("TOK_END"), P("TOK_END"),
      P("TOK_RETURN"), Loc("x"), P("TOK_END"),
      P("TOK_WRITE"), Id("g"), P("("), Num(1), P(")"), P("TOK_END")>>

\* proc h() if 1 then local z = 1 end write $z end end
BadScope ==
    <<P("TOK_PROC"), Id("h"), P("("), P(")"),
      P("TOK_IF"), Num(1), P("TOK_THEN"), P("TOK_LOCAL"), Id("z"), P("="), Num(1),
      P("TOK_END"),
      P("TOK_WRITE"), Loc("z"), P("TOK_END"), P("TOK_END")>>

\* proc cb() write 7 end end callback() write 9 end
Callback ==
    <<P("TOK_PROC"), Id("cb"), P("("), P(")"),
      P("TOK_WRITE"), Num(7), P("TOK_END"), P("TOK_END"),
      Id("callback"), P("("), P(")"),
      P("TOK_WRITE"), Num(9), P("TOK_END")>>

\* read s end
Echo == <<P("TOK_READ"), Id("s"), P("TOK_END")>>

\* x = 1 while 1 x x ... x end, with MAX_STACK / 16 reads of x in the body:
\* every turn leaves them on the stack
Over ==
    <<Id("x"), P("="), Num(1), P("TOK_WHILE"), Num(1)>>
      \o [i \in 1..(MAX_STACK \div 16) |-> Id("x")] \o <<P("TOK_END")>>

\* proc f() end write f() end
Under ==
    <<P("TOK_PROC"), Id("f"), P("("), P(")"), P("TOK_END"),
      P("TOK_WRITE"), Id("f"), P("("), P(")"), P("TOK_END")>>

\* a = b = 1
Chain == <<Id("a"), P("="), Id("b"), P("="), Num(1)>>

\* g = { m1, m2, m3 }
Members ==
    <<Id("g"), P("="), P("{"), Id("m1"), P(","), Id("m2"), P(","), Id("m3"), P("}")>>

\* proc k() if 1 then local x = 1 end local x = 2
\* if 1 then write $x end end end
Shadow ==
    <<P("TOK_PROC"), Id("k"), P("("), P(")"),
      P("TOK_IF"), Num(1), P("TOK_THEN"), P("TOK_LOCAL"), Id("x"), P("="), Num(1),
      P("TOK_END"),
      P("TOK_LOCAL"), Id("x"), P("="), Num(2),
      P("TOK_IF"), Num(1), P("TOK_THEN"), P("TOK_WRITE"), Loc("x"), P("TOK_END"),
      P("TOK_END"), P("TOK_END")>>

\* proc f(a, b) write $a end write $b end end f(7, 8)
Args ==
    <<P("TOK_PROC"), Id("f"), P("("), Id("a"), P(","), Id("b"), P(")"),
      P("TOK_WRITE"), Loc("a"), P("TOK_END"), P("TOK_WRITE"), Loc("b"), P("TOK_END"),
      P("TOK_END"),
      Id("f"), P("("), Num(7), P(","), Num(8), P(")")>>

\* proc f(a) local x local y write $x end write $y end $y = $a
\* write $y end end f(5)
Locals ==
    <<P("TOK_PROC"), Id("f"), P("("), Id("a"), P(")"),
      P("TOK_LOCAL"), Id("x"), P("TOK_LOCAL"), Id("y"),
      P("TOK_WRITE"), Loc("x"), P("TOK_END"), P("TOK_WRITE"), Loc("y"), P("TOK_END"),
      Loc("y"), P("="), Loc("a"),
      P("TOK_WRITE"), Loc("y"), P("TOK_END"), P("TOK_END"),
      Id("f"), P("("), Num(5), P(")")>>

\* proc f(a) end f(x = 1)
AssignArg ==
    <<P("TOK_PROC"), Id("f"), P("("), Id("a"), P(")"), P("TOK_END"),
      Id("f"), P("("), Id("x"), P("="), Num(1), P(")")>>

\* proc f(a, b) write $a end end f(1)
FewArgs ==
    <<P("TOK_PROC"), Id("f"), P("("), Id("a"), P(","), Id("b"), P(")"),
      P("TOK_WRITE"), Loc("a"), P("TOK_END"), P("TOK_END"),
      Id("f"), P("("), Num(1), P(")")>>

\* x = 1 x x ... x g(), with MAX_STACK / 16 reads of x
NoProc ==
    <<Id("x"), P("="), Num(1)>> \o [i \in 1..(MAX_STACK \div 16) |-> Id("x")]
      \o <<Id("g"), P("("), P(")")>>

\* f() proc f() write 1 end end
Forward ==
    <<Id("f"), P("("), P(")"),
      P("TOK_PROC"), Id("f"), P("("), P(")"),
      P("TOK_WRITE"), Num(1), P("TOK_END"), P("TOK_END")>>

\* return ;
TopReturn == <<P("TOK_RETURN"), P(";")>>

Sources ==
    {"Fact", "Sum", "Arr", "OobGet", "OobSet", "Cyc", "GetNull", "GetLate",
     "GetUnset", "Deep", "TopLocal", "TopRef", "Scopes", "BadScope", "Callback",
     "Echo", "Over", "Under", "Chain", "Members", "Shadow",
     "Args", "Locals", "AssignArg",
     "FewArgs", "NoProc", "Forward",
     "TopReturn"}

TokensOf(src) ==
    CASE src = "Fact" -> Fact [] src = "Sum" -> Sum [] src = "Arr" -> Arr
      [] src = "OobGet" -> OobGet [] src = "OobSet" -> OobSet [] src = "Cyc" -> Cyc
      [] src = "GetNull" -> GetNull [] src = "GetLate" -> GetLate
      [] src = "GetUnset" -> GetUnset [] src = "Deep" -> Deep
      [] src = "TopLocal" -> TopLocal [] src = "TopRef" -> TopRef
      [] src = "Scopes" -> Scopes [] src = "BadScope" -> BadScope
      [] src = "Callback" -> Callback [] src = "Over" -> Over
      [] src = "Under" -> Under [] src = "Chain" -> Chain
      [] src = "Members" -> Members [] src = "Shadow" -> Shadow
      [] src = "Args" -> Args [] src = "Locals" -> Locals
      [] src = "AssignArg" -> AssignArg [] src = "FewArgs" -> FewArgs
      [] src = "NoProc" -> NoProc [] src = "Forward" -> Forward
      [] src = "TopReturn" -> TopReturn [] OTHER -> Echo

\* The procedures the host calls once the program has halted, with the
\* number of arguments each takes
HostProcs(src) ==
    CASE src = "Fact" -> {[name |-> "fact", nargs |-> 1]}
      [] src = "Scopes" -> {[name |-> "g", nargs |-> 1]}
      [] src = "Callback" -> {[name |-> "cb", nargs |-> 0]}
      [] OTHER -> {}

\* The bounds of the exploration
MaxSteps == 6000
MaxTainted == 2
MaxHostCalls == 1
HostNumbers == {2}
Lines == {"h", "hello"}

\* call is the history of the function the specifications of single
\* functions have called last
NoCall == [op |-> "none"]

VARIABLES
    Program, Constants, FunctionPcs, FunctionNames, ProgramCounter,
    FramePointer, Stack, StackSize, IndirStack, IndirStackSize, heap,
    GCHead, NumObjects, MaxNumObjects, Variables, VariableAmount,
    RuntimeVariableAmount, status, msg, undef, nundef, out, gc, calls,
    ret, loops, cpRet, beyond, access, indexed, last, steps, tainted, hist,
    phase, source, refs, hostPushed, hostCalls, ast, call

vars ==
  <<Program, Constants, FunctionPcs, FunctionNames, ProgramCounter,
    FramePointer, Stack, StackSize, IndirStack, IndirStackSize, heap,
    GCHead, NumObjects, MaxNumObjects, Variables, VariableAmount,
    RuntimeVariableAmount, status, msg, undef, nundef, out, gc, calls,
    ret, loops, cpRet, beyond, access, indexed, last, steps, tainted, hist,
    phase, source, refs, hostPushed, hostCalls, ast, call>>

\* The machine, as the record the definitions above work on
Machine ==
    [Program |-> Program, Constants |-> Constants,
     FunctionPcs |-> FunctionPcs, FunctionNames |-> FunctionNames,
     ProgramCounter |-> ProgramCounter, FramePointer |-> FramePointer,
     Stack |-> Stack, StackSize |-> StackSize, IndirStack |-> IndirStack,
     IndirStackSize |-> IndirStackSize, heap |-> heap, GCHead |-> GCHead,
     NumObjects |-> NumObjects, MaxNumObjects |-> MaxNumObjects,
     Variables |-> Variables, VariableAmount |-> VariableAmount,
     RuntimeVariableAmount |-> RuntimeVariableAmount, status |-> status,
     msg |-> msg, undef |-> undef, nundef |-> nundef, out |-> out,
     gc |-> gc, calls |-> calls, ret |-> ret, loops |-> loops,
     cpRet |-> cpRet, beyond |-> beyond, access |-> access,
     indexed |-> indexed, last |-> last, steps |-> steps,
     tainted |-> tainted, hist |-> hist]

Becomes(m) ==
    /\ Program' = m.Program
    /\ Constants' = m.Constants
    /\ FunctionPcs' = m.FunctionPcs
    /\ FunctionNames' = m.FunctionNames
    /\ ProgramCounter' = m.ProgramCounter
    /\ FramePointer' = m.FramePointer
    /\ Stack' = m.Stack
    /\ StackSize' = m.StackSize
    /\ IndirStack' = m.IndirStack
    /\ IndirStackSize' = m.IndirStackSize
    /\ heap' = m.heap
    /\ GCHead' = m.GCHead
    /\ NumObjects' = m.NumObjects
    /\ MaxNumObjects' = m.MaxNumObjects
    /\ Variables' = m.Variables
    /\ VariableAmount' = m.VariableAmount
    /\ RuntimeVariableAmount' = m.RuntimeVariableAmount
    /\ status' = m.status
    /\ msg' = m.msg
    /\ undef' = m.undef
    /\ nundef' = m.nundef
    /\ out' = m.out
    /\ gc' = m.gc
    /\ calls' = m.calls
    /\ ret' = m.ret
    /\ loops' = m.loops
    /\ cpRet' = m.cpRet
    /\ beyond' = m.beyond
    /\ access' = m.access
    /\ indexed' = m.indexed
    /\ last' = m.last
    /\ steps' = m.steps
    /\ tainted' = m.tainted
    /\ hist' = m.hist

\* The machine once the host has called InitInterpreter()
InitialMachine == InitInterpreter[ZeroMachine]

\* The globals hold the machine m
MachineIs(m) ==
    /\ Program = m.Program
    /\ Constants = m.Constants
    /\ FunctionPcs = m.FunctionPcs
    /\ FunctionNames = m.FunctionNames
    /\ ProgramCounter = m.ProgramCounter
    /\ FramePointer = m.FramePointer
    /\ Stack = m.Stack
    /\ StackSize = m.StackSize
    /\ IndirStack = m.IndirStack
    /\ IndirStackSize = m.IndirStackSize
    /\ heap = m.heap
    /\ GCHead = m.GCHead
    /\ NumObjects = m.NumObjects
    /\ MaxNumObjects = m.MaxNumObjects
    /\ Variables = m.Variables
    /\ VariableAmount = m.VariableAmount
    /\ RuntimeVariableAmount = m.RuntimeVariableAmount
    /\ status = m.status
    /\ msg = m.msg
    /\ undef = m.undef
    /\ nundef = m.nundef
    /\ out = m.out
    /\ gc = m.gc
    /\ calls = m.calls
    /\ ret = m.ret
    /\ loops = m.loops
    /\ cpRet = m.cpRet
    /\ beyond = m.beyond
    /\ access = m.access
    /\ indexed = m.indexed
    /\ last = m.last
    /\ steps = m.steps
    /\ tainted = m.tainted
    /\ hist = m.hist

Init ==
    /\ MachineIs(InitialMachine)
    /\ phase = "init"
    /\ source = ""
    /\ refs = << >>
    /\ hostPushed = 0
    /\ hostCalls = 0
    /\ ast = << >>
    /\ call = NoCall

\* CompileFile(in) on a fresh interpreter to which the host has bound its
\* foreign function
Compile ==
    /\ phase = "init"
    /\ \E src \in Sources :
         \E cs \in {CompileFile[[ResetCompileState EXCEPT
                                   !.ForeignFunctionNames = ForeignFunctionNames],
                                TokensOf(src)]} :
            /\ \E m \in {Load[Machine, cs]} : Becomes(m)
            /\ phase' = IF cs.err # "" THEN "rejected" ELSE "compiled"
            /\ source' = src
            /\ refs' = cs.refs
            /\ ast' = cs.ast
    /\ UNCHANGED <<hostPushed, hostCalls, call>>

\* RunMachine() is entered
Run ==
    /\ phase = "compiled"
    /\ \E m \in {RunMachine[Machine]} : Becomes(m)
    /\ phase' = "running"
    /\ UNCHANGED <<source, refs, hostPushed, hostCalls, ast, call>>

\* The machine as ExecuteCycle() is entered: the history of the last cycle
\* is cleared.  beyond is set once a cycle is run by a CallProc whose
\* procedure has returned.
Entered ==
    [Machine EXCEPT
       !.ret = NoRet, !.access = NoAccess, !.indexed = NoIndexed,
       !.hist = [@ EXCEPT !.edge = NoEdge, !.heapLen = Len(heap), !.alloc = NoAlloc,
                          !.local = NoLocal],
       !.last = [op |-> ProgramWord(Machine, ProgramCounter), pc |-> ProgramCounter],
       !.steps = @ + 1,
       !.beyond = @ \/ (loops[Len(loops)].kind = "CallProc"
                        /\ loops[Len(loops)].returned)]

\* One ExecuteCycle() of the innermost loop.  An undefined read yields what
\* u says; once one has yielded garbage the execution is followed for
\* MaxTainted more steps.
Step ==
    /\ phase = "running" /\ status = "ok" /\ loops # << >>
    /\ Running(Machine)
    /\ steps < MaxSteps /\ tainted <= MaxTainted
    /\ \E line \in Lines, m0 \in {Entered} :
         \E stale \in {ExecuteCycle[m0, line, "stale"]} :
           \E u \in Outcomes(stale.nundef # nundef) :
             \E m1 \in {IF u = "stale" THEN stale ELSE ExecuteCycle[m0, line, u]} :
                Becomes([m1 EXCEPT !.tainted = IF @ > 0 \/ u # "stale"
                                               THEN @ + 1 ELSE 0])
    /\ UNCHANGED <<phase, source, refs, hostPushed, hostCalls, ast, call>>

\* What CallProc's caller finds when the loop of CallProc ends
CallProcReturn(top) ==
    [n |-> cpRet.n + 1, by |-> top.by, nargs |-> top.nargs,
     pc |-> top.pc, fp |-> top.fp, size |-> top.size,
     returned |-> top.returned, ret |-> top.ret,
     pcNow |-> ProgramCounter, fpNow |-> FramePointer,
     sizeNow |-> StackSize, beyond |-> beyond]

\* The innermost loop finds its condition false and ends: RunMachine or
\* CallProc returns.
LoopExit ==
    /\ phase = "running" /\ status = "ok" /\ loops # << >>
    /\ ~Running(Machine)
    /\ \E top \in {loops[Len(loops)]} :
         /\ Becomes([Machine EXCEPT
                       !.loops = SubSeq(@, 1, Len(@) - 1),
                       !.cpRet = IF top.kind # "CallProc" THEN @ ELSE CallProcReturn(top)])
         /\ phase' = IF Len(loops) = 1 THEN "halted" ELSE "running"
    /\ UNCHANGED <<source, refs, hostPushed, hostCalls, ast, call>>

\* The host pushes an argument: DoPush(NewNumber(v))
HostPush ==
    /\ phase = "halted" /\ status = "ok"
    /\ hostCalls < MaxHostCalls
    /\ \E h \in HostProcs(source) : hostPushed < h.nargs
    /\ \E v \in HostNumbers, u \in Undef :
         \E n \in {NewNumber[Machine, v, u]} :
           \E m \in {DoPush[n.m, n.val]} : Becomes(m)
    /\ hostPushed' = hostPushed + 1
    /\ UNCHANGED <<phase, source, refs, hostCalls, ast, call>>

\* The host calls CallProc(GetProcId(name), nargs), its arguments pushed
HostCallProc ==
    /\ phase = "halted" /\ status = "ok"
    /\ hostCalls < MaxHostCalls
    /\ \E h \in HostProcs(source) :
         /\ hostPushed = h.nargs
         /\ \E m \in {CallProc[Machine, GetProcId[FunctionNames, h.name],
                               h.nargs, "host"]} : Becomes(m)
    /\ phase' = "running"
    /\ hostPushed' = 0
    /\ hostCalls' = hostCalls + 1
    /\ UNCHANGED <<source, refs, ast, call>>

\* The host calls DeleteInterpreter()
Teardown ==
    /\ phase = "halted" /\ status = "ok"
    /\ hostPushed = 0
    /\ \E u \in Undef :
         \E m \in {DeleteInterpreter[Machine, u]} : Becomes(m)
    /\ phase' = "deleted"
    /\ UNCHANGED <<source, refs, hostPushed, hostCalls, ast, call>>

Next == Compile \/ Run \/ Step \/ LoopExit \/ HostPush \/ HostCallProc \/ Teardown

Spec == Init /\ [][Next]_vars

(***************************************************************************)
(* RegisterNumber and RegisterString on their own: the calls a compilation *)
(* makes, in any order, on a pool that is empty or two entries short of    *)
(* full.  call is the call made last: the constant, the pool before it,    *)
(* the index returned and the error raised.                                *)
(***************************************************************************)
ConstNumbers == {1, 2, MAX_CONST_AMT + 1}
ConstStrings == {"x", "y"}

\* The pool of a program that has used the numbers 1, 2, ... so far
PoolOf(n) == << >> \o [i \in 1..n |-> CstNum(i)]
Pools == {PoolOf(0), PoolOf(MAX_CONST_AMT - 2)}

InitConst ==
    /\ \E pool \in Pools : MachineIs([InitialMachine EXCEPT !.Constants = pool])
    /\ phase = "registering"
    /\ source = ""
    /\ refs = << >>
    /\ hostPushed = 0
    /\ hostCalls = 0
    /\ ast = << >>
    /\ call = NoCall

\* What a call of a Register... function leaves
RegisterCalled(op, c, r) ==
    /\ Constants' = r.cs.Constants
    /\ call' = [op |-> op, const |-> c, before |-> Constants, id |-> r.id,
                err |-> r.cs.err]
    /\ UNCHANGED <<Program, FunctionPcs, FunctionNames, ProgramCounter,
                   FramePointer, Stack, StackSize, IndirStack, IndirStackSize,
                   heap, GCHead, NumObjects, MaxNumObjects, Variables,
                   VariableAmount, RuntimeVariableAmount, status, msg, undef,
                   nundef, out, gc, calls, ret, loops, cpRet, beyond, access,
                   indexed, last, steps, tainted, hist, phase, source, refs,
                   hostPushed, hostCalls, ast>>

\* RegisterNumber(value) is called
CallRegisterNumber ==
    /\ phase = "registering" /\ (call.op # "none" => call.err = "")
    /\ \E value \in ConstNumbers :
         \E r \in {RegisterNumber[[ResetCompileState EXCEPT !.Constants = Constants],
                                  value]} :
            RegisterCalled("RegisterNumber", CstNum(value), r)

\* RegisterString(string) is called
CallRegisterString ==
    /\ phase = "registering" /\ (call.op # "none" => call.err = "")
    /\ \E string \in ConstStrings :
         \E r \in {RegisterString[[ResetCompileState EXCEPT !.Constants = Constants],
                                  string]} :
            RegisterCalled("RegisterString", CstStr(string), r)

NextConst == CallRegisterNumber \/ CallRegisterString

SpecConst == InitConst /\ [][NextConst]_vars

(***************************************************************************)
(* The lexer, GetToken, on the characters of the file.  A character is a   *)
(* string of length one, EOF what getc returns at the end of the file.     *)
(* The lexer's state f is the file (in, and pos, the number of characters  *)
(* read from it), GetToken's static last, TokenBuffer (the characters      *)
(* stored before the terminating NUL) and TokenNumber; tok is the token    *)
(* code returned, len the number of characters the token's loop has met,   *)
(* err the failed assert and undef the undefined operations performed.     *)
(***************************************************************************)
MAX_TOK_LEN == 256

EOF == "EOF"
Letters == {"a", "b", "d", "e", "n", "x"}
Digits == {"0", "1", "2"}

isspace(c) == c \in {" ", "\n"}
isalpha(c) == c \in Letters
isdigit(c) == c \in Digits
isalnum(c) == isalpha(c) \/ isdigit(c)

\* The file as fopen leaves it, and last as the program starts
StartOfFile(in) ==
    [op |-> "GetToken", in |-> in, pos |-> 0, last |-> " ", TokenBuffer |-> << >>,
     TokenNumber |-> 0, tok |-> "", len |-> 0, err |-> "", undef |-> {}]

\* last for j = 0, and for j > 0 what the j-th getc(in) from here returns
Char(f, j) ==
    IF j = 0 THEN f.last
    ELSE IF f.pos + j <= Len(f.in) THEN f.in[f.pos + j] ELSE EOF

\* last = getc(in), k times
Getc[f \in Any, k \in Any] ==
    [f EXCEPT !.last = Char(f, k),
              !.pos = IF f.pos + k <= Len(f.in) THEN f.pos + k ELSE Len(f.in)]

\* int Peek(FILE* in)
Peek(f) == Char(f, 1)

\* The number of turns of a loop "while(!Stops(last)) last = getc(in);":
\* the file's length and more if it never stops
Turns(f, Stops(_)) ==
    LET far == (Len(f.in) - f.pos) + 2
        S == {j \in 0..far : Stops(Char(f, j))}
    IN IF S = {} THEN far + MAX_TOK_LEN
       ELSE CHOOSE j \in S : \A i \in S : j <= i

\* The characters Char(f, 0) .. Char(f, k - 1)
Chars[f \in Any, k \in Any] == << >> \o [j \in 1..k |-> Char(f, j - 1)]

\* The loops of the isalpha, isdigit and '$' branches, which meet k
\* characters: assert(i < MAX_TOK_LEN - 1 && failed); TokenBuffer[i++] = last;
\* last = getc(in); and TokenBuffer[i] = '\0' after the loop
Checked[f \in Any, k \in Any, failed \in Any] ==
    IF k > MAX_TOK_LEN - 1
    THEN [Getc[f, MAX_TOK_LEN - 1] EXCEPT !.TokenBuffer = Chars[f, MAX_TOK_LEN - 1],
                                          !.len = k, !.err = failed]
    ELSE [Getc[f, k] EXCEPT !.TokenBuffer = Chars[f, k], !.len = k]

\* The loop of the '"' branch, which has no assert: TokenBuffer[i++] = last
\* for each of the k characters, then TokenBuffer[i] = '\0'.  A store at
\* MAX_TOK_LEN or beyond is outside the array.
Unchecked[f \in Any, k \in Any] ==
    [Getc[f, k] EXCEPT !.TokenBuffer = Chars[f, k], !.len = k,
                       !.undef = IF k > MAX_TOK_LEN - 1
                                 THEN @ \cup {"store outside TokenBuffer"} ELSE @]

\* The strcmp chain of the isalpha branch
Keywords ==
    {[text |-> <<"b", "e", "g", "i", "n">>, tok |-> "TOK_BEGIN"],
     [text |-> <<"e", "n", "d">>, tok |-> "TOK_END"],
     [text |-> <<"r", "e", "a", "d">>, tok |-> "TOK_READ"],
     [text |-> <<"w", "r", "i", "t", "e">>, tok |-> "TOK_WRITE"],
     [text |-> <<"p", "r", "o", "c">>, tok |-> "TOK_PROC"],
     [text |-> <<"i", "f">>, tok |-> "TOK_IF"],
     [text |-> <<"r", "e", "t", "u", "r", "n">>, tok |-> "TOK_RETURN"],
     [text |-> <<"w", "h", "i", "l", "e">>, tok |-> "TOK_WHILE"],
     [text |-> <<"t", "h", "e", "n">>, tok |-> "TOK_THEN"],
     [text |-> <<"l", "o", "c", "a", "l">>, tok |-> "TOK_LOCAL"]}

Word[f \in Any] ==
    IF f.err # "" THEN f
    ELSE IF \E w \in Keywords : w.text = f.TokenBuffer
    THEN [f EXCEPT !.tok = (CHOOSE w \in Keywords : w.text = f.TokenBuffer).tok]
    ELSE IF f.TokenBuffer = <<"t", "r", "u", "e">>
    THEN [f EXCEPT !.tok = "TOK_NUMBER", !.TokenNumber = 1]
    ELSE IF f.TokenBuffer = <<"f", "a", "l", "s", "e">>
    THEN [f EXCEPT !.tok = "TOK_NUMBER", !.TokenNumber = 0]
    ELSE [f EXCEPT !.tok = "TOK_IDENT"]

\* strtod(TokenBuffer, NULL) on at most 9 digits; of a longer text, or one
\* with a '.', the model keeps the text
DigitValue(c) == CASE c = "0" -> 0 [] c = "1" -> 1 [] c = "2" -> 2 [] OTHER -> 0

strtod[text \in Any] ==
    IF Len(text) > 9 \/ \E i \in 1..Len(text) : ~isdigit(text[i]) THEN text
    ELSE IF text = << >> THEN 0
    ELSE 10 * strtod[SubSeq(text, 1, Len(text) - 1)] + DigitValue(text[Len(text)])

Number[f \in Any] ==
    IF f.err # "" THEN f
    ELSE [f EXCEPT !.tok = "TOK_NUMBER", !.TokenNumber = strtod[f.TokenBuffer]]

\* The '"' branch, last = getc(in) done: the loop, then last = getc(in)
String[f \in Any] ==
    LET Closed[g \in Any] == [Getc[g, 1] EXCEPT !.tok = "TOK_STRING"]
    IN Closed[Unchecked[f, Turns(f, LAMBDA c : c = "\"")]]

\* The two-character tokens, and the character itself
Punct[f \in Any] ==
    IF f.last \in {"=", "!", "<", ">"} /\ Peek(f) = "="
    THEN [Getc[f, 2] EXCEPT !.tok = CASE f.last = "=" -> "TOK_EQUALS"
                                      [] f.last = "!" -> "TOK_NOTEQUALS"
                                      [] f.last = "<" -> "TOK_LTE"
                                      [] OTHER -> "TOK_GTE"]
    ELSE [Getc[f, 1] EXCEPT !.tok = f.last]

\* int GetToken(FILE* in)
GetToken[f0 \in Any] ==
    LET Spaced[f \in Any] ==
          IF isalpha(f.last)
          THEN Word[Checked[f, Turns(f, LAMBDA c : ~(isalnum(c) \/ c = "_")),
                            "Token was too long!"]]
          ELSE IF isdigit(f.last)
          THEN Number[Checked[f, Turns(f, LAMBDA c : ~(isdigit(c) \/ c = ".")),
                              "Number was too long!"]]
          ELSE IF f.last = "#"
          THEN GetToken[Getc[f, Turns(f, LAMBDA c : c = "\n" \/ c = EOF)]]
          ELSE IF f.last = "$"
          THEN LET Ref[g \in Any] ==
                     [Checked[g, Turns(g, LAMBDA c : ~(isalnum(c) \/ c = "_")),
                              "Token was too long!"]
                        EXCEPT !.tok = IF @ # "" THEN @ ELSE "TOK_LOCALREF"]
               IN Ref[Getc[f, 1]]
          ELSE IF f.last = "\""
          THEN String[Getc[f, 1]]
          ELSE IF f.last = EOF
          THEN [f EXCEPT !.tok = "TOK_EOF"]
          ELSE Punct[f]
    IN Spaced[Getc[[f0 EXCEPT !.tok = "", !.len = 0],
                   Turns(f0, LAMBDA c : ~isspace(c))]]

(***************************************************************************)
(* GetToken on its own, called until the end of the file, a failed assert  *)
(* or an undefined store.  The files: one or two short tokens, and one     *)
(* token of each class that fills TokenBuffer or has one character more.   *)
(***************************************************************************)
Lexemes ==
    {<<"a", "b">>, <<"e", "n", "d">>, <<"x", "_", "1">>, <<"1", "2">>,
     <<"$", "a">>, <<"\"", "a", " ", "b", "\"">>, <<"=", "=">>, <<"<">>,
     <<"#", "a", "\n">>, <<"(">>}

Repeated(c, n) == << >> \o [i \in 1..n |-> c]

LongTokens ==
    UNION {{Repeated("a", n), Repeated("1", n), <<"$">> \o Repeated("a", n),
            <<"\"">> \o Repeated("a", n) \o <<"\"">>} :
             n \in {MAX_TOK_LEN - 1, MAX_TOK_LEN}}

Files ==
    Lexemes \cup {a \o <<" ">> \o b : a \in Lexemes, b \in Lexemes}
            \cup {t \o <<" ", "x">> : t \in LongTokens}

InitLex ==
    /\ MachineIs(InitialMachine)
    /\ phase = "lexing"
    /\ source = ""
    /\ refs = << >>
    /\ hostPushed = 0
    /\ hostCalls = 0
    /\ ast = << >>
    /\ call \in {StartOfFile(in) : in \in Files}

\* GetToken(in) is called
CallGetToken ==
    /\ phase = "lexing"
    /\ call.tok # "TOK_EOF" /\ call.err = "" /\ call.undef = {}
    /\ call' = GetToken[call]
    /\ UNCHANGED <<Program, Constants, FunctionPcs, FunctionNames, ProgramCounter,
                   FramePointer, Stack, StackSize, IndirStack, IndirStackSize,
                   heap, GCHead, NumObjects, MaxNumObjects, Variables,
                   VariableAmount, RuntimeVariableAmount, status, msg, undef,
                   nundef, out, gc, calls, ret, loops, cpRet, beyond, access,
                   indexed, last, steps, tainted, hist, phase, source, refs,
                   hostPushed, hostCalls, ast>>

NextLex == CallGetToken

SpecLex == InitLex /\ [][NextLex]_vars

(***************************************************************************)
(* ParseExpr on its own, on the expressions f1 op1 f2 ... opn f(n+1) with  *)
(* 1 <= n <= MaxOps: the factors are the numbers 1, 2, ... in this order,  *)
(* the operators any of one operator of each precedence of GetTokenPrec.   *)
(* call is the expression to parse, then the call made: the tokens, the    *)
(* expression returned and the error raised.                               *)
(***************************************************************************)
MaxOps == 3

ExprOps == {"*", "+", "<", "="}

\* The tokens of the expression with the operators ops
ExprTokens(ops) ==
    << >> \o [i \in 1..(2 * Len(ops) + 1) |->
                IF i % 2 = 1 THEN Num((i + 1) \div 2) ELSE P(ops[i \div 2])]

ExprFiles ==
    UNION {{ExprTokens(<< >> \o ops) : ops \in [1..n -> ExprOps]} : n \in 1..MaxOps}

InitExpr ==
    /\ MachineIs(InitialMachine)
    /\ phase = "parsing"
    /\ source = ""
    /\ refs = << >>
    /\ hostPushed = 0
    /\ hostCalls = 0
    /\ ast = << >>
    /\ call \in {[op |-> "expr", in |-> in] : in \in ExprFiles}

\* GetNextToken(in); ParseExpr(in); on a file that holds the expression
CallParseExpr ==
    /\ phase = "parsing" /\ call.op = "expr"
    /\ \E r \in {ParseExpr(GetNextToken[[ResetCompileState EXCEPT !.in = call.in]])} :
         call' = [op |-> "ParseExpr", in |-> call.in, e |-> r.e, err |-> r.cs.err,
                  Constants |-> r.cs.Constants, CurTok |-> r.cs.CurTok]
    /\ UNCHANGED <<Program, Constants, FunctionPcs, FunctionNames, ProgramCounter,
                   FramePointer, Stack, StackSize, IndirStack, IndirStackSize,
                   heap, GCHead, NumObjects, MaxNumObjects, Variables,
                   VariableAmount, RuntimeVariableAmount, status, msg, undef,
                   nundef, out, gc, calls, ret, loops, cpRet, beyond, access,
                   indexed, last, steps, tainted, hist, phase, source, refs,
                   hostPushed, hostCalls, ast>>

NextExpr == CallParseExpr

SpecExpr == InitExpr /\ [][NextExpr]_vars

\* The tokens an expression was built from, in order: a number is the
\* constant its index names
Yield[x \in Any] ==
    IF x.e.type = "EXP_BINARY"
    THEN Yield[[x EXCEPT !.e = x.e.lhs]] \o <<P(x.e.op)>> \o Yield[[x EXCEPT !.e = x.e.rhs]]
    ELSE IF x.e.type = "EXP_NUM" /\ x.e.number \in 0..(Len(x.Constants) - 1)
    THEN <<Num(x.Constants[x.e.number + 1].number)>>
    ELSE <<x.e>>

\* No operator of the expression has an operand built by an operator of
\* lower precedence
TighterBelow[e \in Any] ==
    e.type = "EXP_BINARY" =>
        \A operand \in {e.lhs, e.rhs} :
            /\ operand.type = "EXP_BINARY" =>
                  GetTokenPrec(operand.op) >= GetTokenPrec(e.op)
            /\ TighterBelow[operand]

(***************************************************************************)
(* DoRead's buffer on its own, on every line of at most MaxLine characters *)
(* a or b.  call is the line on stdin, then the call made: the line and    *)
(* the buffer as the terminator has been stored.                           *)
(***************************************************************************)
MaxLine == 5

StdinLines == UNION {[1..n -> {"a", "b"}] : n \in 0..MaxLine}

InitRead ==
    /\ MachineIs(InitialMachine)
    /\ phase = "reading"
    /\ source = ""
    /\ refs = << >>
    /\ hostPushed = 0
    /\ hostCalls = 0
    /\ ast = << >>
    /\ call \in {[op |-> "line", line |-> << >> \o line] : line \in StdinLines}

\* DoRead() is called
CallDoRead ==
    /\ phase = "reading" /\ call.op = "line"
    /\ call' = [op |-> "DoRead", line |-> call.line,
                buffer |-> DoReadBuffer[Len(call.line)]]
    /\ UNCHANGED <<Program, Constants, FunctionPcs, FunctionNames, ProgramCounter,
                   FramePointer, Stack, StackSize, IndirStack, IndirStackSize,
                   heap, GCHead, NumObjects, MaxNumObjects, Variables,
                   VariableAmount, RuntimeVariableAmount, status, msg, undef,
                   nundef, out, gc, calls, ret, loops, cpRet, beyond, access,
                   indexed, last, steps, tainted, hist, phase, source, refs,
                   hostPushed, hostCalls, ast>>

NextRead == CallDoRead

SpecRead == InitRead /\ [][NextRead]_vars

(***************************************************************************)
(* The properties                                                          *)
(***************************************************************************)
\* C1: every CALL of a user procedure that returns leaves the operand
\* stack at its size before the CALL minus nargs (plus 1 when it returns
\* via RETURN_VALUE), the frame pointer at its value before the CALL and
\* the pc at the instruction that follows the CALL, at any depth
C1_CallReturnBalanced ==
    ret.by = "CALL" =>
        /\ ret.sizeAfter = ret.size - ret.nargs + (IF ret.viaValue THEN 1 ELSE 0)
        /\ ret.fpAfter = ret.fp
        /\ ret.pcAfter = ret.pc

\* C2: an object an instruction reads after it has allocated is reachable
\* from a root when the allocation collects: no instruction reads an
\* object a collection has freed, the operands of an arithmetic or
\* comparison instruction least of all
C2_ReadObjectsRooted == "use after free" \notin undef

\* C3: after a collection every object that was reachable from the roots
\* just before it is still in the heap list, is not freed, and has the
\* type and the contents it had
C3_CollectionKeepsReachable ==
    \A o \in gc.reach :
        /\ \E i \in 1..Len(gc.list) : gc.list[i] = o
        /\ ~gc.after[o].freed
        /\ gc.after[o].type = gc.before[o].type
        /\ gc.after[o].number = gc.before[o].number
        /\ gc.after[o].string = gc.before[o].string
        /\ gc.after[o].values = gc.before[o].values

\* A collection has run that freed an object and kept an array together
\* with an element of it
C3_Witness ==
    /\ gc.n > 0
    /\ \E o \in 1..Len(heap) : heap[o].freed
    /\ \E o \in gc.reach :
         /\ gc.before[o].type = "OBJ_ARRAY"
         /\ \E k \in 1..Len(gc.before[o].values) : gc.before[o].values[k] \in gc.reach

\* C4: in a program the compiler accepts, GET never pushes an empty (null)
\* slot: a global is not read before an executed SET has assigned it
C4_GetNeverPushesNull ==
    (phase = "running" /\ status = "ok" /\ last.op = OP_GET /\ StackSize > 0)
        => StackSlot(Machine, StackSize - 1) # NULL

\* C5: the first CALL whose three saved words do not fit in IndirStack
\* fails with a fatal error, and stores nothing past the end of IndirStack
C5_CallBeyondCapacityIsFatal ==
    (last.op = OP_CALL /\ calls # << >>
       /\ calls[Len(calls)].indir + 3 > MAX_INDIR)
        => (status = "exit" /\ "store outside IndirStack" \notin undef)

\* C6: GETINDEX and SETINDEX on an array of length n with an index i < 0
\* or i >= n end the execution with the fatal error and touch no array
\* slot; with 0 <= i < n they do not end it, and touch slot i of the array
C6_IndexBoundsChecked ==
    (indexed.op # "none" /\ Live(Machine, indexed.obj)
       /\ heap[indexed.obj].type = "OBJ_ARRAY")
        => IF indexed.index < 0 \/ indexed.index >= Len(heap[indexed.obj].values)
           THEN /\ status = "exit"
                /\ msg = "Array index out of bounds error"
                /\ access = NoAccess
           ELSE /\ status # "exit"
                /\ access.op = (IF indexed.op = "GETINDEX" THEN "read" ELSE "write")
                /\ access.obj = indexed.obj
                /\ access.index = indexed.index
                /\ "access outside array" \notin undef

\* GETINDEX with the index equal to the array's length has ended the
\* execution
C6_Witness ==
    /\ indexed.op = "GETINDEX"
    /\ Live(Machine, indexed.obj)
    /\ indexed.index = Len(heap[indexed.obj].values)
    /\ status = "exit"

\* C7: once DeleteInterpreter has returned every object allocated since
\* InitInterpreter has been freed
C7_TeardownFreesAll ==
    phase = "deleted" => \A o \in 1..Len(heap) : heap[o].freed

\* C8: a program with a $name reference outside every procedure body is
\* rejected by the parser
C8_TopLevelReferenceRejected ==
    \A i \in 1..Len(refs) : ~refs[i].inProc => phase = "rejected"

\* C9: in a procedure body, a $X reference at scope depth s finds a
\* declaration whenever X has been declared in that body, by local or as
\* a parameter, at a depth d <= s
C9_LocalVisibleAtDeeperScope ==
    \A i \in 1..Len(refs) :
        (/\ refs[i].inProc
         /\ \E j \in 1..Len(refs[i].decls) :
              /\ refs[i].decls[j].name = refs[i].name
              /\ refs[i].decls[j].scope <= refs[i].scope)
            => refs[i].found

\* An accepted program whose procedure refers, in a nested block, to a
\* local declared in the block around it
C9_Witness ==
    /\ phase = "compiled"
    /\ \E i \in 1..Len(refs) :
         /\ refs[i].inProc /\ refs[i].found
         /\ \E j \in 1..Len(refs[i].decls) :
              /\ refs[i].decls[j].name = refs[i].name
              /\ refs[i].decls[j].index >= 0
              /\ refs[i].decls[j].scope < refs[i].scope

\* C10: CallProc on a compiled procedure returns to its caller when that
\* procedure returns, no instruction beyond it executed, with pc and the
\* frame pointer as they were and the operand stack at its size before
\* the call minus nargs (plus 1 if a value is returned), after the
\* program has halted and from a foreign function alike
C10_CallProcReturnsToCaller ==
    cpRet.n > 0 =>
        /\ cpRet.returned
        /\ ~cpRet.beyond
        /\ cpRet.pcNow = cpRet.pc
        /\ cpRet.fpNow = cpRet.fp
        /\ cpRet.sizeNow = cpRet.size - cpRet.nargs
                            + (IF cpRet.ret.viaValue THEN 1 ELSE 0)

\* C11: a DoPush entered with StackSize = MAX_STACK and a DoPop entered
\* with StackSize = 0 end the execution with the fatal error of the
\* overflow or the underflow, whichever instruction makes them, and
\* neither store nor read outside Stack: the stack is as it was and no
\* undefined operation has been performed since
C11_StackEdgesAreFatal ==
    hist.edge.op # "none" =>
        /\ status = "exit"
        /\ msg = (IF hist.edge.op = "push" THEN "Stack Overflow" ELSE "Stack Underflow")
        /\ Stack = hist.edge.Stack
        /\ nundef = hist.edge.nundef
        /\ StackSize = (IF hist.edge.op = "push" THEN MAX_STACK ELSE 0)

\* A PUSH on the full stack has ended the execution
C11_Witness ==
    /\ hist.edge.op = "push"
    /\ last.op = OP_PUSH
    /\ Len(Stack) = MAX_STACK
    /\ status = "exit"

\* C12: no object is finalized twice, and a collection unlinks and
\* finalizes every object that is unreachable from the roots when it
\* runs: the list holds each object once and no finalized one, an object
\* off the list has been finalized, the list a collection leaves holds
\* reachable objects only, and no collection stops with an unreachable
\* object still linked
C12_UnreachableFinalizedOnce ==
    /\ \A i, j \in 1..Len(GCHead) : GCHead[i] = GCHead[j] => i = j
    /\ \A i \in 1..Len(GCHead) : ~heap[GCHead[i]].freed
    /\ phase # "deleted" =>
          \A o \in 1..Len(heap) :
              ~heap[o].freed => \E i \in 1..Len(GCHead) : GCHead[i] = o
    /\ \A i \in 1..Len(gc.list) : gc.list[i] \in gc.reach
    /\ (status = "crash" /\ msg = "Mark recurses without end") =>
          \A i \in 1..Len(GCHead) : GCHead[i] \in Reach[Machine]

\* C13: GETINDEX at an index within the array that no SETINDEX has
\* written pushes a number allocated by this instruction whose value is 0
C13_UnwrittenSlotReadsZero ==
    (/\ indexed.op = "GETINDEX" /\ access.op = "read" /\ status = "ok"
     /\ access.index \in 0..(indexed.length - 1)
     /\ <<access.obj, access.index>> \notin hist.written)
        => /\ StackSize > 0
           /\ StackSlot(Machine, StackSize - 1) = Len(heap)
           /\ Len(heap) = hist.heapLen + 1
           /\ heap[Len(heap)].type = "OBJ_NUM"
           /\ heap[Len(heap)].number = 0
           /\ ~heap[Len(heap)].freed

\* GETINDEX has read a slot never written of an array of which another
\* slot has been written
C13_Witness ==
    /\ indexed.op = "GETINDEX" /\ access.op = "read" /\ status = "ok"
    /\ <<access.obj, access.index>> \notin hist.written
    /\ \E i \in 0..(indexed.length - 1) : <<access.obj, i>> \in hist.written
    /\ heap[StackSlot(Machine, StackSize - 1)].number = 0

\* C14: the factorial program prints exactly 720 and halts cleanly: its
\* execution performs no undefined operation and ends in no error, what it
\* has printed is at every moment a part of that output, and it is all of
\* it once RunMachine has returned
C14_FactPrints720 ==
    source = "Fact" =>
        /\ phase # "rejected" /\ status = "ok" /\ undef = {}
        /\ \A i \in 1..Len(out) :
              i = 1 /\ out[i].type = "OBJ_NUM" /\ out[i].number = 720
        /\ (phase = "halted" /\ hostCalls = 0) => Len(out) = 1

\* C15: RegisterNumber of a number equal to one in the pool, and
\* RegisterString of a string byte-equal to one in the pool, return the
\* index of the earlier entry and add no entry to the pool
C15_RegisterTwiceSameIndex ==
    call.op \in {"RegisterNumber", "RegisterString"} =>
        \A i \in 1..Len(call.before) :
            (/\ call.before[i].type = call.const.type
             /\ call.before[i].number = call.const.number
             /\ call.before[i].string = call.const.string
             /\ \A j \in 1..(i - 1) : call.before[j] # call.before[i])
                => (call.id = i - 1 /\ call.err = "" /\ Constants = call.before)

\* A string has been registered a second time, a number registered
\* between the two
C15_Witness ==
    /\ call.op = "RegisterString" /\ call.err = ""
    /\ \E i, j \in 1..Len(call.before) :
          /\ i < j
          /\ call.before[i] = call.const
          /\ call.before[j].type = "CST_NUM"
    /\ Constants = call.before

\* C16: a token of any class longer than MAX_TOK_LEN - 1 characters is
\* a fatal error of the lexer, and GetToken stores no character beyond
\* the end of TokenBuffer
C16_OverlongTokenIsFatal ==
    call.op = "GetToken" =>
        /\ call.len > MAX_TOK_LEN - 1 => call.err # ""
        /\ "store outside TokenBuffer" \notin call.undef

\* C17: the mark phase of every collection terminates, on a heap with
\* arrays that contain themselves too: no collection ends in a Mark that
\* recurses without end
C17_MarkTerminates ==
    ~(status = "crash" /\ msg = "Mark recurses without end")

\* C18: a = b = e parses as a = (b = e): the statement is an assignment
\* whose left-hand side is the identifier a and whose right-hand side is
\* the assignment b = e
C18_ChainedAssignIsRightAssoc ==
    source = "Chain" =>
        /\ Len(ast) = 1
        /\ ast[1].type = "EXP_BINARY" /\ ast[1].op = "="
        /\ ast[1].lhs.type = "EXP_ID"
        /\ ast[1].rhs.type = "EXP_BINARY" /\ ast[1].rhs.op = "="
        /\ ast[1].rhs.lhs.type = "EXP_ID"
        /\ ast[1].rhs.rhs.type = "EXP_NUM"

\* C19: g = { m1, m2, m3 } is parsed and compiled without error, no
\* bytecode is emitted for it (the program is the final HALT alone), and
\* the members of global g are m1, m2, m3 in this order
C19_NamedMembersRecorded ==
    source = "Members" =>
        /\ phase # "rejected"
        /\ Program = <<OP_HALT>>
        /\ \E i \in 1..Len(Variables) :
              Variables[i].name = "g" /\ Variables[i].members = <<"m1", "m2", "m3">>

\* C20: every $X reference resolves to a declaration of X of the greatest
\* scope depth among the declarations of X whose scope is at most the
\* scope of the reference, and fails if there is none
C20_InnermostDeclarationWins ==
    \A r \in 1..Len(refs) :
        LET ref == refs[r]
            visible == {j \in 1..Len(ref.decls) :
                          ref.decls[j].name = ref.name /\ ref.decls[j].scope <= ref.scope}
        IN IF visible = {} THEN ~ref.found
           ELSE /\ ref.found
                /\ ref.at \in visible
                /\ \A j \in visible : ref.decls[j].scope <= ref.decls[ref.at].scope

\* C21: NewObject runs a collection exactly when the object count has
\* reached the threshold as it is entered; after the collection the
\* threshold is twice the number of the objects that survived it; the
\* threshold after init is 2
C21_CollectAtThreshold ==
    /\ phase = "init" => MaxNumObjects = 2
    /\ hist.alloc.op = "NewObject" =>
          /\ hist.alloc.collections \in {0, 1}
          /\ hist.alloc.collections = 1
                <=> hist.alloc.NumObjects >= hist.alloc.MaxNumObjects
          /\ hist.alloc.collections = 1 =>
                hist.alloc.threshold = 2 * hist.alloc.survivors
          /\ hist.alloc.collections = 0 =>
                hist.alloc.threshold = hist.alloc.MaxNumObjects

\* An allocation has collected and some objects have survived, and before
\* it an allocation below the threshold has not collected
C21_Witness ==
    /\ hist.alloc.op = "NewObject" /\ hist.alloc.collections = 1
    /\ hist.alloc.survivors > 0 /\ hist.alloc.survivors < hist.alloc.NumObjects
    /\ gc.n >= 2

\* C22: in f(a, b) called as f(7, 8), $a is compiled as GETLOCAL -2 and $b
\* as GETLOCAL -1, each GETLOCAL pushes the object the call site pushed
\* for that argument, found just below the frame pointer, and the body
\* prints 7 then 8
C22_ParameterReadsArgument ==
    source = "Args" =>
        /\ phase # "rejected" /\ status = "ok" /\ undef = {}
        /\ \A i \in 1..Len(out) :
              i <= 2 /\ out[i].type = "OBJ_NUM" /\ out[i].number = 6 + i
        /\ phase = "halted" => Len(out) = 2
        /\ hist.local.op = "GETLOCAL" =>
              /\ calls # << >>
              /\ calls[Len(calls)].nargs = 2
              /\ hist.local.fp = calls[Len(calls)].size
              /\ hist.local.localIdx = (-2) + Len(out)
              /\ hist.local.slot = Len(out)
              /\ StackSlot(Machine, StackSize - 1) = StackSlot(Machine, Len(out))
              /\ heap[StackSlot(Machine, StackSize - 1)].number = 7 + Len(out)
              /\ ~heap[StackSlot(Machine, StackSize - 1)].freed

\* The second parameter has been read and printed
C22_Witness ==
    /\ source = "Args" /\ phase = "halted" /\ Len(out) = 2
    /\ out[2].number = 8 /\ calls = << >> /\ StackSize = 0

C24_PrecedenceGroups ==
    call.op = "ParseExpr" =>
        /\ call.err = "" /\ call.CurTok = "TOK_EOF"
        /\ Yield[call] = call.in
        /\ TighterBelow[call.e]

\* 1 + 2 * 3 is parsed as 1 + (2 * 3)
C24_Witness ==
    /\ call.op = "ParseExpr" /\ call.in = ExprTokens(<<"+", "*">>)
    /\ call.e.op = "+" /\ call.e.lhs.type = "EXP_NUM"
    /\ call.e.rhs.type = "EXP_BINARY" /\ call.e.rhs.op = "*"

\* C25: StackSize is within 0..MAX_STACK in every state of the machine,
\* after the return of a call whose argument expressions have pushed
\* fewer values than the call passes too
C25_StackSizeInRange ==
    StackSize \in 0..MAX_STACK

\* C26: every GETLOCAL and SETLOCAL executed by a call accesses a slot
\* FramePointer + localIdx that is at least 0 and below StackSize, in a
\* call that passes fewer arguments than the procedure declares too
C26_LocalSlotInStack ==
    (hist.local.op # "none" /\ calls # << >>) =>
        /\ 0 <= hist.local.slot
        /\ hist.local.slot < hist.local.StackSize

\* C27: every CALL executed leaves the pc at the entry recorded for the
\* called name by a proc definition of the program, which exists
C27_CallEntersDefinedProc ==
    (last.op = OP_CALL /\ status = "ok" /\ undef = {}) =>
        \E i \in 1..Len(ast) :
            /\ ast[i].type = "EXP_PROC"
            /\ ast[i].name = ReadInteger[[Machine EXCEPT
                                             !.ProgramCounter = last.pc + 5]].val
            /\ ProgramCounter = FunctionPcs[ast[i].name + 1]
            /\ ProgramCounter > 0

\* C28: IndirStackSize is a multiple of 3 and is not negative in any
\* state: no RETURN or RETURN_VALUE executes without a saved frame
C28_IndirStackHoldsFrames ==
    IndirStackSize >= 0 /\ IndirStackSize % 3 = 0

\* C29: DoRead stores every character of the line and the terminator
\* within the capacity the buffer has at that store: the capacity is at
\* least the length of the line plus 1 when the terminator is stored
C29_ReadStaysInBuffer ==
    call.op = "DoRead" =>
        /\ call.buffer.outside = {}
        /\ call.buffer.bufferCapacity >= Len(call.line) + 1

\* C30: in every state, which is a state outside a collection, NumObjects
\* is the number of the objects linked in the list and no object of the
\* list has its mark set
C30_CountAndMarksAtRest ==
    /\ NumObjects = Len(GCHead)
    /\ \A i \in 1..Len(GCHead) : ~heap[GCHead[i]].marked

\* A collection has freed some objects and kept some, and objects have
\* been allocated since
C30_Witness ==
    /\ gc.n >= 1 /\ status = "ok"
    /\ \E o \in gc.reach : o \in {GCHead[i] : i \in 1..Len(GCHead)}
    /\ \E o \in 1..Len(heap) : heap[o].freed
    /\ Len(GCHead) >= 3 /\ NumObjects = Len(GCHead)

=============================================================================
